---- MODULE Spec2Model ----
(***************************************************************************)
(* A model of the Rauk Inventory SDK: the client object and its            *)
(* configuration (src/src/core/rauk-client.ts), the process-wide singleton *)
(* and its static forwarding layer (src/src/index.ts), the request signer  *)
(* (sign-request, src/unnamed/part_004) and the error classifier (errors,  *)
(* src/unnamed/part_003).                                                  *)
(*                                                                         *)
(* JavaScript values are records with a type tag t, so that any two of     *)
(* them can be compared.  Strings that the code measures or searches       *)
(* (credentials, error messages) are TLA+ strings.                         *)
(***************************************************************************)
EXTENDS Integers, Sequences, FiniteSets, TLC

VARIABLES
    clients,    \* the client objects: their class and their four fields
    instance,   \* RaukInventory.instance: a client, or NoInstance
    lastSync,   \* the last constructor or setConfig call and what it threw
    calls,      \* the facade calls
    probe,      \* the input of the function under study, in the function specifications
    result      \* its output

vars == <<clients, instance, lastSync, calls, probe, result>>

-----------------------------------------------------------------------------
(* Bounds of the model. *)

\* Number of client objects that can be alive at once.
MaxClients == 1
\* Date.now() returns a value in 1..MaxTime.
MaxTime == 1
\* A list of validation errors, and a list of children, has up to MaxErrors
\* elements.
MaxErrors == 2

(* Constants of the program. *)

\* rauk-client.ts:57
KeyIdLength == 24
\* rauk-client.ts:60
PublicKeyLength == 32
\* rauk-client.ts:63
SecretLength == 64

ClientIds == 1..MaxClients
Times == 1..MaxTime

-----------------------------------------------------------------------------
(* JavaScript values. *)

Undefined == [t |-> "undefined"]
Null == [t |-> "null"]
Str(s) == [t |-> "string", s |-> s]
Num(n) == [t |-> "number", n |-> n]
Bool(b) == [t |-> "boolean", b |-> b]
Arr(a) == [t |-> "array", a |-> a]

\* ToBoolean of the values the model uses: objects and arrays (also empty ones)
\* are truthy, undefined, null, "", 0 and false are falsy.
Truthy(v) ==
    CASE v.t = "undefined" -> FALSE
      [] v.t = "null" -> FALSE
      [] v.t = "string" -> v.s # ""
      [] v.t = "number" -> v.n # 0
      [] v.t = "boolean" -> v.b
      [] OTHER -> TRUE

\* String.prototype.includes
includes(s, sub) ==
    \E i \in 1..(Len(s) - Len(sub) + 1) : SubSeq(s, i, i + Len(sub) - 1) = sub

-----------------------------------------------------------------------------
(* Errors.  A thrown value is a record; class is the constructor's name.   *)
(* The classes of errors.ts carry statusCode, context and originalError;   *)
(* the built-in classes (Error, TypeError, SyntaxError) carry a message.   *)

RaukErrorClasses ==
    {"RaukError", "RaukValidationError", "RaukAuthenticationError",
     "RaukNetworkError", "RaukApiError"}

\* new Error(message), new TypeError(message), ...
NativeError(class, message) ==
    [t |-> "error", class |-> class, message |-> message]

\* error instanceof RaukError
isRaukError(error) == error.t = "error" /\ error.class \in RaukErrorClasses

\* error instanceof Error
isError(error) == error.t = "error"

NoError == [t |-> "none"]

-----------------------------------------------------------------------------
(* Configuration objects handed to the constructor and to setConfig. *)

DefaultBaseUrl == "https://inventory.rauk.app"

Config(keyId, secret, publicKey, baseUrl) ==
    [apiKeyId |-> keyId, apiSecret |-> secret, apiPublicKey |-> publicKey,
     apiBaseUrl |-> baseUrl]

KeyA == "123456789012345678901234"
SecretA == "1234567890123456789012345678901234567890123456789012345678901234"
PublicA == "12345678901234567890123456789012"
KeyB == "abcdefghijklmnopqrstuvwx"
SecretB == "abcdefghijklmnopqrstuvwxyzabcdefghijklmnopqrstuvwxyzabcdefghijkl"
PublicB == "abcdefghijklmnopqrstuvwxyzabcdef"

ConfigA == Config(KeyA, SecretA, PublicA, Str("https://inventory.rauk.local"))
ConfigB == Config(KeyB, SecretB, PublicB, Undefined)
ConfigC == Config(KeyB, SecretA, PublicA, Str(""))

ValidConfigs == {ConfigA, ConfigB, ConfigC}

\* One field of ConfigA empty, or of another length than the one required.
InvalidConfigs ==
    {Config("", SecretA, PublicA, ConfigA.apiBaseUrl),
     Config(KeyA, "", PublicA, ConfigA.apiBaseUrl),
     Config(KeyA, SecretA, "", ConfigA.apiBaseUrl),
     Config(PublicA, SecretA, PublicA, ConfigA.apiBaseUrl),
     Config(KeyA, SecretA, KeyA, ConfigA.apiBaseUrl),
     Config(KeyA, PublicA, PublicA, Undefined)}

AllConfigs == ValidConfigs \cup InvalidConfigs

\* The configurations setConfig is called with.
SetConfigs ==
    ValidConfigs \cup {Config("", SecretA, PublicA, ConfigA.apiBaseUrl),
                       Config(KeyA, PublicA, PublicA, Undefined)}

-----------------------------------------------------------------------------
(* Client objects. *)

NoClient == [class |-> "none"]

NoInstance == 0

Constructed == {c \in ClientIds : clients[c].class # "none"}

\* The object a constructor call allocates: the lowest free identity.
FreshClient == CHOOSE c \in ClientIds : clients[c].class = "none" /\
                   \A d \in ClientIds : d < c => clients[d].class # "none"

\* The constructor's checks, as a mutation would have them: the key length
\* the message names, 32, instead of 24.
ConstructorCheck_keyLength32(config) ==
    IF config.apiKeyId = "" \/ config.apiSecret = "" \/ config.apiPublicKey = ""
    THEN NativeError("Error", "apiKeyId, apiSecret and apiPublicKey are required")
    ELSE IF Len(config.apiKeyId) # PublicKeyLength
    THEN NativeError("Error", "apiKeyId must be 32 characters long")
    ELSE IF Len(config.apiPublicKey) # PublicKeyLength
    THEN NativeError("Error", "apiPublicKey must be 32 characters long")
    ELSE IF Len(config.apiSecret) # SecretLength
    THEN NativeError("Error", "apiSecret must be 64 characters long")
    ELSE NoError

\* RaukInventoryClient.constructor: the error it throws, or NoError.
ConstructorCheck(config) ==
    IF config.apiKeyId = "" \/ config.apiSecret = "" \/ config.apiPublicKey = ""
    THEN NativeError("Error", "apiKeyId, apiSecret and apiPublicKey are required")
    ELSE IF Len(config.apiKeyId) # KeyIdLength
    THEN NativeError("Error", "apiKeyId must be 32 characters long")
    ELSE IF Len(config.apiPublicKey) # PublicKeyLength
    THEN NativeError("Error", "apiPublicKey must be 32 characters long")
    ELSE IF Len(config.apiSecret) # SecretLength
    THEN NativeError("Error", "apiSecret must be 64 characters long")
    ELSE NoError

\* The fields the constructor assigns; the parameter default applies to an
\* apiBaseUrl that is undefined, and only to that.
ConstructorFields(class, config) ==
    [class |-> class,
     apiKeyId |-> config.apiKeyId,
     apiSecret |-> config.apiSecret,
     apiPublicKey |-> config.apiPublicKey,
     apiBaseUrl |-> IF config.apiBaseUrl = Undefined THEN DefaultBaseUrl
                    ELSE config.apiBaseUrl.s]

\* setConfig, as a mutation would have it: the base URL is left as it was
SetConfigFields_keepsUrl(client, config) ==
    [class |-> client.class,
     apiKeyId |-> config.apiKeyId,
     apiSecret |-> config.apiSecret,
     apiPublicKey |-> config.apiPublicKey,
     apiBaseUrl |-> client.apiBaseUrl]

\* setConfig, as a mutation would have it: a configuration without a base
\* URL leaves the base URL as it was
SetConfigFields_urlSurvives(client, config) ==
    [class |-> client.class,
     apiKeyId |-> config.apiKeyId,
     apiSecret |-> config.apiSecret,
     apiPublicKey |-> config.apiPublicKey,
     apiBaseUrl |-> IF Truthy(config.apiBaseUrl) THEN config.apiBaseUrl.s
                    ELSE client.apiBaseUrl]

\* The fields setConfig assigns: all four, with no check.
SetConfigFields(client, config) ==
    [class |-> client.class,
     apiKeyId |-> config.apiKeyId,
     apiSecret |-> config.apiSecret,
     apiPublicKey |-> config.apiPublicKey,
     apiBaseUrl |-> IF Truthy(config.apiBaseUrl) THEN config.apiBaseUrl.s
                    ELSE DefaultBaseUrl]

\* A constructor or setConfig call: the object it was made on (NoInstance
\* when there is none), its argument and what it threw.
Sync(api, class, client, config, threw) ==
    [api |-> api, class |-> class, client |-> client, config |-> config,
     threw |-> threw]

\* new RaukInventoryClient(config)
NewRaukInventoryClient(config) ==
    LET threw == ConstructorCheck(config) IN
        /\ threw = NoError => \E c \in ClientIds : clients[c].class = "none"
        /\ lastSync' = Sync("new", "RaukInventoryClient",
                            IF threw = NoError THEN FreshClient ELSE NoInstance,
                            config, threw)
        /\ clients' = IF threw = NoError
                      THEN [clients EXCEPT ![FreshClient] =
                              ConstructorFields("RaukInventoryClient", config)]
                      ELSE clients
        /\ UNCHANGED <<instance, calls, probe, result>>

AlreadyInitialized ==
    NativeError("Error",
        "RaukInventory is already initialized. Use the existing instance.")

\* new RaukInventory(config), as a mutation would have it: the singleton
\* check before the checks of the configuration.
NewRaukInventory_checkFirst(config) ==
    LET super == ConstructorCheck(config)
        threw == IF instance # NoInstance THEN AlreadyInitialized
                 ELSE IF super # NoError THEN super
                 ELSE NoError
    IN
        /\ threw = NoError => \E c \in ClientIds : clients[c].class = "none"
        /\ lastSync' = Sync("new", "RaukInventory",
                            IF threw = NoError THEN FreshClient ELSE NoInstance,
                            config, threw)
        /\ clients' = IF threw = NoError
                      THEN [clients EXCEPT ![FreshClient] =
                              ConstructorFields("RaukInventory", config)]
                      ELSE clients
        /\ instance' = IF threw = NoError THEN FreshClient ELSE instance
        /\ UNCHANGED <<calls, probe, result>>

\* new RaukInventory(config): super(config), then the singleton check, then
\* the registration.
NewRaukInventory(config) ==
    LET super == ConstructorCheck(config)
        threw == IF super # NoError THEN super
                 ELSE IF instance # NoInstance THEN AlreadyInitialized
                 ELSE NoError
    IN
        /\ threw = NoError => \E c \in ClientIds : clients[c].class = "none"
        /\ lastSync' = Sync("new", "RaukInventory",
                            IF threw = NoError THEN FreshClient ELSE NoInstance,
                            config, threw)
        /\ clients' = IF threw = NoError
                      THEN [clients EXCEPT ![FreshClient] =
                              ConstructorFields("RaukInventory", config)]
                      ELSE clients
        /\ instance' = IF threw = NoError THEN FreshClient ELSE instance
        /\ UNCHANGED <<calls, probe, result>>

\* client.setConfig(config), as a mutation would have it: the requests in
\* flight read the base URL when they are sent, after the call
setConfig_reachesInFlight(c, config) ==
    /\ c \in Constructed
    /\ clients' = [clients EXCEPT ![c] = SetConfigFields(clients[c], config)]
    /\ lastSync' = Sync("setConfig", clients[c].class, c, config, NoError)
    /\ calls' = [k \in DOMAIN calls |->
                    IF calls[k].pc = "fetch" /\ calls[k].client = c
                    THEN [calls[k] EXCEPT !.request.url =
                            SetConfigFields(clients[c], config).apiBaseUrl
                                \o "/query"]
                    ELSE calls[k]]
    /\ UNCHANGED <<instance, probe, result>>

\* client.setConfig(config)
setConfig(c, config) ==
    /\ c \in Constructed
    /\ clients' = [clients EXCEPT ![c] = SetConfigFields(clients[c], config)]
    /\ lastSync' = Sync("setConfig", clients[c].class, c, config, NoError)
    /\ UNCHANGED <<instance, calls, probe, result>>

MustBeInitialized ==
    NativeError("Error",
        "RaukInventory must be initialized with \"new RaukInventory(config)\" before calling static methods.")

\* RaukInventory.setConfig(config)
static_setConfig(config) ==
    /\ IF instance = NoInstance
       THEN /\ lastSync' = Sync("static setConfig", "RaukInventory", NoInstance,
                                config, MustBeInitialized)
            /\ UNCHANGED clients
       ELSE /\ clients' = [clients EXCEPT ![instance] =
                              SetConfigFields(clients[instance], config)]
            /\ lastSync' = Sync("static setConfig", "RaukInventory", instance,
                                config, NoError)
    /\ UNCHANGED <<instance, calls, probe, result>>

-----------------------------------------------------------------------------
(* Objects, property access and JSON. *)

\* value.key, for a value that is not null or undefined: the property, or
\* undefined when the value has none of that name.
Get(value, key) ==
    IF value.t = "object" /\ key \in DOMAIN value THEN value[key] ELSE Undefined

\* value?.key
OptGet(value, key) ==
    IF value.t \in {"undefined", "null"} THEN Undefined ELSE Get(value, key)

Nullish(value) == value.t \in {"undefined", "null"}

\* { ...options, limit: 1 }, as a mutation would have it:
\* { limit: 1, ...options }, where the caller's limit wins
SpreadLimitOne_callerWins(options) ==
    IF options.t = "object"
    THEN [k \in DOMAIN options \cup {"limit"} |->
            IF k \in DOMAIN options THEN options[k] ELSE Num(1)]
    ELSE [t |-> "object", limit |-> Num(1)]

\* { ...options, limit: 1 }: a spread of undefined or null adds nothing.
SpreadLimitOne(options) ==
    IF options.t = "object"
    THEN [k \in DOMAIN options \cup {"limit"} |->
            IF k = "limit" THEN Num(1) ELSE options[k]]
    ELSE [t |-> "object", limit |-> Num(1)]

\* An object that refers to itself, which JSON.stringify refuses.
Cyclic == [t |-> "cyclic"]

RECURSIVE HasCycle(_)
HasCycle(v) ==
    CASE v.t = "cyclic" -> TRUE
      [] v.t = "array" -> \E i \in 1..Len(v.a) : HasCycle(v.a[i])
      [] v.t = "object" -> \E k \in DOMAIN v \ {"t"} : HasCycle(v[k])
      [] OTHER -> FALSE

\* The text JSON.stringify writes for a value without cycles, as the value it
\* denotes: an undefined array element is written null, a property whose
\* value is undefined is left out.
RECURSIVE JSONtext(_)
JSONtext(v) ==
    CASE v.t = "array" ->
            Arr([i \in 1..Len(v.a) |->
                    IF v.a[i].t = "undefined" THEN Null ELSE JSONtext(v.a[i])])
      [] v.t = "object" ->
            [k \in {"t"} \cup {j \in DOMAIN v \ {"t"} : v[j].t # "undefined"} |->
                    IF k = "t" THEN "object" ELSE JSONtext(v[k])]
      [] OTHER -> v

Return(value) == [t |-> "return", value |-> value]
Throw(error) == [t |-> "throw", error |-> error]

\* JSON.stringify(value)
JSONstringify(value) ==
    IF HasCycle(value)
    THEN Throw(NativeError("TypeError", "Converting circular structure to JSON"))
    ELSE Return([t |-> "json", text |-> JSONtext(value)])

-----------------------------------------------------------------------------
(* sign-request.ts *)

\* createHmac, as a mutation would have it: only the time is hashed
createHmac_timeOnly(key, data) == [t |-> "hmac", key |-> key, data |-> data.time]

\* crypto.createHmac("sha256", key).update(data).digest("hex"): the digest is
\* a term over its inputs; createHmac accepts every string as a key.
createHmac(key, data) == [t |-> "hmac", key |-> key, data |-> data]

\* Buffer.from(time).toString("base64")
base64(s) == [t |-> "base64", of |-> s]

\* `${apiKeyId}.${apiPublicKey}.${hmac}.${b64Time}`: the parts, in the order
\* in which the dots join them.
Token(parts) == [t |-> "token", parts |-> parts]

\* signRequest, as a mutation would have it: the clock is read a second time
\* for the suffix, a millisecond later.
signRequest_secondReading(apiKeyId, apiSecret, apiPublicKey, body, now) ==
    LET time == ToString(now)
        json == JSONstringify(body)
    IN  IF json.t = "throw" THEN json
        ELSE LET data == [text |-> json.value.text, time |-> time]
                 hmac == createHmac(apiSecret, data)
                 b64Time == base64(ToString(now + 1))
             IN  Return(Token(<<Str(apiKeyId), Str(apiPublicKey), hmac, b64Time>>))

\* signRequest(credentials, body) when Date.now() returns now.  The payload
\* is serialized before the try block, so a failure to serialize is thrown
\* as it is.
signRequest(apiKeyId, apiSecret, apiPublicKey, body, now) ==
    LET time == ToString(now)
        json == JSONstringify(body)
    IN  IF json.t = "throw" THEN json
        ELSE LET data == [text |-> json.value.text, time |-> time]
                 hmac == createHmac(apiSecret, data)
                 b64Time == base64(time)
             IN  Return(Token(<<Str(apiKeyId), Str(apiPublicKey), hmac, b64Time>>))

-----------------------------------------------------------------------------
(* errors.ts *)

\* new RaukError(message, {statusCode, context}, originalError) and its
\* subclasses.  The timestamp option is a reading of the wall clock and is
\* left out.
RaukError(class, message, statusCode, context, originalError) ==
    [t |-> "error", class |-> class, message |-> message,
     statusCode |-> statusCode, context |-> context,
     originalError |-> originalError]

\* new RaukValidationError(message, validationErrors, options, originalError)
RaukValidationError(message, validationErrors, statusCode, originalError) ==
    [t |-> "error", class |-> "RaukValidationError", message |-> message,
     validationErrors |-> validationErrors,
     statusCode |-> statusCode, context |-> Undefined,
     originalError |-> originalError]

\* extractMessages of getAllMessages, as a mutation would have it: the
\* children before the constraints of the error
RECURSIVE extractMessages_childrenFirst(_, _)
extractMessages_childrenFirst(errors, messages) ==
    IF errors = <<>> THEN messages
    ELSE LET error == Head(errors)
             descended == IF Len(error.children.a) > 0
                          THEN extractMessages_childrenFirst(error.children.a,
                                                             messages)
                          ELSE messages
         IN  extractMessages_childrenFirst(Tail(errors),
                                           descended \o error.constraints.a)

\* extractMessages of getAllMessages: errors.forEach pushes the constraints
\* of each error onto messages and then descends into its children, when it
\* has any.  The result is messages after the call.
RECURSIVE extractMessages(_, _)
extractMessages(errors, messages) ==
    IF errors = <<>> THEN messages
    ELSE LET error == Head(errors)
             pushed == messages \o error.constraints.a
             descended == IF Len(error.children.a) > 0
                          THEN extractMessages(error.children.a, pushed)
                          ELSE pushed
         IN  extractMessages(Tail(errors), descended)

\* errors.filter((error) => error.property === path)
RECURSIVE filterProperty(_, _)
filterProperty(errors, path) ==
    IF errors = <<>> THEN <<>>
    ELSE (IF Head(errors).property = Str(path) THEN <<Head(errors)>> ELSE <<>>)
            \o filterProperty(Tail(errors), path)

\* findErrors of getErrorsForProperty, as a mutation would have it: the
\* errors of the list only
findErrors_topLevel(errors, path) == filterProperty(errors, path)

\* findErrors of getErrorsForProperty: the errors of the list with the
\* property, then what concat appends: the elements of
\* errors.flatMap((error) => error.children.length > 0
\*                             ? findErrors(error.children, path) : []),
\* none of which is an array.
RECURSIVE findErrors(_, _)
findErrors(errors, path) ==
    LET RECURSIVE flatMapChildren(_)
        flatMapChildren(rest) ==
            IF rest = <<>> THEN <<>>
            ELSE (IF Len(Head(rest).children.a) > 0
                  THEN findErrors(Head(rest).children.a, path)
                  ELSE <<>>)
                    \o flatMapChildren(Tail(rest))
    IN  filterProperty(errors, path) \o flatMapChildren(errors)

\* validationErrors.flatMap((error) => error.constraints), when no element is
\* null or undefined: a constraints array is spliced in, any other value
\* becomes one element.
RECURSIVE flatMapConstraints(_)
flatMapConstraints(errors) ==
    IF errors = <<>> THEN <<>>
    ELSE LET constraints == Get(Head(errors), "constraints")
         IN  (IF constraints.t = "array" THEN constraints.a ELSE <<constraints>>)
                \o flatMapConstraints(Tail(errors))

\* The text Array.prototype.join writes for one element.
joinElement(v) ==
    CASE v.t = "string" -> v.s
      [] v.t \in {"undefined", "null"} -> ""
      [] v.t = "number" -> ToString(v.n)
      [] OTHER -> "[object Object]"

\* array.join(separator)
RECURSIVE join(_, _)
join(array, separator) ==
    IF array = <<>> THEN ""
    ELSE IF Len(array) = 1 THEN joinElement(array[1])
    ELSE joinElement(array[1]) \o separator \o join(Tail(array), separator)

\* errorBody?.error?.message || fallback
messageOr(errorBody, fallback) ==
    LET message == OptGet(OptGet(errorBody, "error"), "message")
    IN  IF Truthy(message) THEN joinElement(message) ELSE fallback

\* errorBody?.error?.errors && Array.isArray(errorBody.error.errors)
hasErrorsList(errorBody) ==
    LET errors == OptGet(OptGet(errorBody, "error"), "errors")
    IN  Truthy(errors) /\ errors.t = "array"

\* response.status === 401 || response.status === 403
isAuthenticationStatus(status) == status = 401 \/ status = 403

\* response.status >= 500, as a mutation would have it: > 500
isServerStatus_strict(status) == status > 500

\* response.status >= 500
isServerStatus(status) == status >= 500

\* parseApiError, as a mutation would have it: the authentication error is
\* made without the body.
parseApiError_dropsBody(response, errorBody) ==
    IF hasErrorsList(errorBody)
    THEN LET validationErrors == errorBody.error.errors
         IN  IF \E i \in 1..Len(validationErrors.a) : Nullish(validationErrors.a[i])
             THEN Throw(NativeError("TypeError",
                    "Cannot read properties of null (reading 'constraints')"))
             ELSE Return(RaukValidationError(
                    messageOr(errorBody,
                              join(flatMapConstraints(validationErrors.a), "; ")),
                    validationErrors, response.status, errorBody))
    ELSE IF isAuthenticationStatus(response.status)
    THEN Return(RaukError("RaukAuthenticationError",
                    messageOr(errorBody, "Authentication failed"),
                    response.status, Undefined, Undefined))
    ELSE IF isServerStatus(response.status)
    THEN Return(RaukError("RaukNetworkError",
                    messageOr(errorBody, "Server error occurred"),
                    response.status, Undefined, errorBody))
    ELSE Return(RaukError("RaukApiError",
                    messageOr(errorBody, "API request failed with status "
                                            \o ToString(response.status)),
                    response.status, Undefined, errorBody))

\* parseApiError(response, errorBody): the error it returns, or the TypeError
\* it throws when an element of the errors list is null.
parseApiError(response, errorBody) ==
    IF hasErrorsList(errorBody)
    THEN LET validationErrors == errorBody.error.errors
         IN  IF \E i \in 1..Len(validationErrors.a) : Nullish(validationErrors.a[i])
             THEN Throw(NativeError("TypeError",
                    "Cannot read properties of null (reading 'constraints')"))
             ELSE Return(RaukValidationError(
                    messageOr(errorBody,
                              join(flatMapConstraints(validationErrors.a), "; ")),
                    validationErrors, response.status, errorBody))
    ELSE IF isAuthenticationStatus(response.status)
    THEN Return(RaukError("RaukAuthenticationError",
                    messageOr(errorBody, "Authentication failed"),
                    response.status, Undefined, errorBody))
    ELSE IF isServerStatus(response.status)
    THEN Return(RaukError("RaukNetworkError",
                    messageOr(errorBody, "Server error occurred"),
                    response.status, Undefined, errorBody))
    ELSE Return(RaukError("RaukApiError",
                    messageOr(errorBody, "API request failed with status "
                                            \o ToString(response.status)),
                    response.status, Undefined, errorBody))

-----------------------------------------------------------------------------
(* RaukInventoryClient.request *)

\* What the fetch promise settles with: a Response, or a rejection carrying
\* the thrown value.  json is what response.json() resolves with, or
\* ParseFail when the body is not JSON.
Response(status, statusText, json) ==
    [t |-> "response", status |-> status, statusText |-> statusText,
     json |-> json]
Rejection(error) == [t |-> "rejection", error |-> error]

ParseFail == [t |-> "parsefail"]

\* response.ok
ok(response) == 200 <= response.status /\ response.status <= 299

\* The made-up body, as a mutation would have it: the message leaves out the
\* status text.
ParseErrorBody_statusOnly(response) ==
    [t |-> "object", success |-> Bool(FALSE),
     error |-> [t |-> "object", name |-> Str("ParseError"),
                message |-> Str("HTTP " \o ToString(response.status))]]

\* The body made up when the body of an error response is not JSON.
ParseErrorBody(response) ==
    [t |-> "object", success |-> Bool(FALSE),
     error |-> [t |-> "object", name |-> Str("ParseError"),
                message |-> Str("HTTP " \o ToString(response.status) \o ": "
                                    \o response.statusText)]]

\* The exception response.json() rejects with.
JsonSyntaxError ==
    NativeError("SyntaxError", "Unexpected token < in JSON at position 0")

\* error instanceof Error ? error.message : String(error)
messageOf(error) == IF isError(error) THEN error.message ELSE joinElement(error)

\* The catch block of request, as a mutation would have it: what is neither a
\* RaukError nor a fault of fetch is thrown again as it came.
requestCatch_rethrows(error) ==
    IF isRaukError(error) THEN Throw(error)
    ELSE IF isError(error) /\ error.class = "TypeError"
            /\ includes(error.message, "fetch")
    THEN Throw(RaukError("RaukNetworkError",
            "Network request failed - check your internet connection and API endpoint",
            0, [t |-> "object", originalError |-> Str(error.message)],
            Undefined))
    ELSE Throw(error)

\* The catch block of request.
requestCatch(error) ==
    IF isRaukError(error) THEN Throw(error)
    ELSE IF isError(error) /\ error.class = "TypeError"
            /\ includes(error.message, "fetch")
    THEN Throw(RaukError("RaukNetworkError",
            "Network request failed - check your internet connection and API endpoint",
            0, [t |-> "object", originalError |-> Str(error.message)],
            Undefined))
    ELSE Throw(RaukError("RaukError",
            "Unexpected error occurred during API request",
            0, [t |-> "object", originalError |-> Str(messageOf(error))],
            Undefined))

\* errorBody: what response.json() resolved with, or the body made up when
\* it rejected.
errorBodyOf(response) ==
    IF response.json = ParseFail THEN ParseErrorBody(response)
    ELSE response.json

\* return data.data, as a mutation would have it: return data
unwrapData_envelope(data) == data

\* return data.data
unwrapData(data) == Get(data, "data")

\* The try block of request from the point where the fetch promise settles.
requestTry(settled) ==
    IF settled.t = "rejection" THEN Throw(settled.error)
    ELSE LET response == settled IN
         IF ~ok(response)
         THEN LET parsed == parseApiError(response, errorBodyOf(response))
              IN  IF parsed.t = "throw" THEN parsed ELSE Throw(parsed.value)
         ELSE IF response.json = ParseFail THEN Throw(JsonSyntaxError)
         ELSE LET data == response.json IN
              IF Nullish(data)
              THEN Throw(NativeError("TypeError",
                    "Cannot read properties of null (reading 'data')"))
              ELSE Return(unwrapData(data))

\* What the promise returned by request settles with, given what the fetch
\* promise settled with.
requestSettled(settled) ==
    LET tried == requestTry(settled)
    IN  IF tried.t = "throw" THEN requestCatch(tried.error) ELSE tried

\* findOne, as a mutation would have it: results[0], which is undefined for
\* an empty list
findOneResult_first(results) ==
    IF Nullish(results)
    THEN Throw(NativeError("TypeError",
            "Cannot read properties of undefined (reading '0')"))
    ELSE IF results.t = "array" /\ Len(results.a) > 0 THEN Return(results.a[1])
    ELSE Return(Undefined)

\* findOne, after find has returned results:
\* results.length > 0 ? results[0] : null
findOneResult(results) ==
    IF Nullish(results)
    THEN Throw(NativeError("TypeError",
            "Cannot read properties of undefined (reading 'length')"))
    ELSE IF results.t = "array" /\ Len(results.a) > 0 THEN Return(results.a[1])
    ELSE IF results.t = "string" /\ Len(results.s) > 0
    THEN Return(Str(SubSeq(results.s, 1, 1)))
    ELSE Return(Null)

-----------------------------------------------------------------------------
(* The facade: the request array each method builds. *)

\* create: requestArray
create_requestArray(item, options) ==
    IF Truthy(options) THEN <<Str("insertOne"), item, options>>
    ELSE <<Str("insertOne"), item>>

\* find: requestArray, as a mutation would have it: options always appended
find_requestArray_placeholder(query, options) ==
    <<Str("find"), query, options>>

\* find: requestArray
find_requestArray(query, options) ==
    IF Truthy(options) THEN <<Str("find"), query, options>>
    ELSE <<Str("find"), query>>

\* update: requestArray, as a mutation would have it: update before query
update_requestArray_swapped(query, updateItem, options) ==
    IF Truthy(options) THEN <<Str("findOneAndUpdate"), updateItem, query, options>>
    ELSE <<Str("findOneAndUpdate"), updateItem, query>>

\* update: requestArray
update_requestArray(query, updateItem, options) ==
    IF Truthy(options) THEN <<Str("findOneAndUpdate"), query, updateItem, options>>
    ELSE <<Str("findOneAndUpdate"), query, updateItem>>

\* aggregate: requestArray
aggregate_requestArray(pipeline, options) ==
    IF Truthy(options) THEN <<Str("aggregate"), pipeline, options>>
    ELSE <<Str("aggregate"), pipeline>>

\* bulkWrite: requestArray
bulkWrite_requestArray(operations, options) ==
    IF Truthy(options) THEN <<Str("bulkWrite"), operations, options>>
    ELSE <<Str("bulkWrite"), operations>>

\* updateMany: requestArray
updateMany_requestArray(query, updateItem, options) ==
    IF Truthy(options) THEN <<Str("updateMany"), query, updateItem, options>>
    ELSE <<Str("updateMany"), query, updateItem>>

\* deleteOne: requestArray
deleteOne_requestArray(query, options) ==
    IF Truthy(options) THEN <<Str("deleteOne"), query, options>>
    ELSE <<Str("deleteOne"), query>>

\* deleteMany: requestArray
deleteMany_requestArray(query, options) ==
    IF Truthy(options) THEN <<Str("deleteMany"), query, options>>
    ELSE <<Str("deleteMany"), query>>

\* The update a soft delete sends: { deleted: { status: true } }
SoftDelete ==
    [t |-> "object", deleted |-> [t |-> "object", status |-> Bool(TRUE)]]

\* delete: requestArray, as a mutation would have it: a removal
delete_requestArray_hard(query, options) ==
    IF Truthy(options) THEN <<Str("deleteOne"), query, options>>
    ELSE <<Str("deleteOne"), query>>

\* delete: requestArray
delete_requestArray(query, options) ==
    IF Truthy(options) THEN <<Str("findOneAndUpdate"), query, SoftDelete, options>>
    ELSE <<Str("findOneAndUpdate"), query, SoftDelete>>

\* findOne: the request array of this.find(query, { ...options, limit: 1 })
findOne_requestArray(query, options) ==
    find_requestArray(query, SpreadLimitOne(options))

\* updateBatch: bulkOperations, as a mutation would have them: filter and
\* update exchanged
bulkOperations_exchanged(updates) ==
    Arr([i \in 1..Len(updates.a) |->
            [t |-> "object",
             updateOne |-> [t |-> "object",
                            filter |-> updates.a[i].a[2],
                            update |-> updates.a[i].a[1]]]])

\* updateBatch: updates.map(([query, update]) => ({ updateOne: ... }))
bulkOperations(updates) ==
    Arr([i \in 1..Len(updates.a) |->
            [t |-> "object",
             updateOne |-> [t |-> "object",
                            filter |-> updates.a[i].a[1],
                            update |-> updates.a[i].a[2]]]])

\* updateBatch: the request array of this.bulkWrite(bulkOperations, options)
updateBatch_requestArray(updates, options) ==
    bulkWrite_requestArray(bulkOperations(updates), options)

-----------------------------------------------------------------------------
(* Facade calls.  A call is idle, waits for its fetch promise to settle, or *)
(* is done, with what its promise settled with; fetches counts the calls of *)
(* fetch made for it.                                                       *)

Idle == [pc |-> "idle"]

NoRequest == [t |-> "none"]

\* The arguments of fetch.
FetchRequest(url, body, signature) ==
    [t |-> "request", url |-> url, method |-> "POST", body |-> body,
     headers |-> [RaiSignature |-> signature,
                  ContentType |-> "application/json"]]

\* request(requestArray) up to the await of the fetch promise: the signature,
\* the serialized body and the URL are computed from the client's fields as
\* they are when the method is called.  When signRequest throws, no fetch is
\* made and the promise rejects with what it threw.  serialized holds what
\* the calls of JSON.stringify gave, in their order: the one of signRequest,
\* then the one that writes the body of the request.
request(c, via, op, args, requestArray, now) ==
    LET self == clients[c]
        signedRequest == signRequest(self.apiKeyId, self.apiSecret,
                                     self.apiPublicKey, Arr(requestArray), now)
        body == JSONstringify(Arr(requestArray))
    IN  IF signedRequest.t = "throw"
        THEN [pc |-> "done", op |-> op, via |-> via, client |-> c,
              args |-> args, fetches |-> 0,
              serialized |-> <<JSONstringify(Arr(requestArray))>>,
              request |-> NoRequest, settled |-> NoRequest,
              outcome |-> signedRequest]
        ELSE [pc |-> "fetch", op |-> op, via |-> via, client |-> c,
              args |-> args, fetches |-> 1,
              serialized |-> <<JSONstringify(Arr(requestArray)), body>>,
              request |-> FetchRequest(self.apiBaseUrl \o "/query",
                                       body.value, signedRequest.value)]

\* A static method of RaukInventory: it throws when no instance is registered
\* and calls the instance's method otherwise.
static(op, args, requestArray, now) ==
    IF instance = NoInstance
    THEN [pc |-> "done", op |-> op, via |-> "static", client |-> NoInstance,
          args |-> args, fetches |-> 0, serialized |-> <<>>,
          request |-> NoRequest, settled |-> NoRequest,
          outcome |-> Throw(MustBeInitialized)]
    ELSE request(instance, "static", op, args, requestArray, now)

\* client.create(item, options)
create(k, c, item, options) ==
    /\ calls[k].pc = "idle"
    /\ c \in Constructed
    /\ \E now \in Times :
        calls' = [calls EXCEPT ![k] =
            request(c, "instance", "create", <<item, options>>,
                    create_requestArray(item, options), now)]
    /\ UNCHANGED <<clients, instance, lastSync, probe, result>>

\* RaukInventory.create(item, options)
static_create(k, item, options) ==
    /\ calls[k].pc = "idle"
    /\ \E now \in Times :
        calls' = [calls EXCEPT ![k] =
            static("create", <<item, options>>,
                   create_requestArray(item, options), now)]
    /\ UNCHANGED <<clients, instance, lastSync, probe, result>>

\* client.find(query, options)
find(k, c, query, options) ==
    /\ calls[k].pc = "idle"
    /\ c \in Constructed
    /\ \E now \in Times :
        calls' = [calls EXCEPT ![k] =
            request(c, "instance", "find", <<query, options>>,
                    find_requestArray(query, options), now)]
    /\ UNCHANGED <<clients, instance, lastSync, probe, result>>

\* RaukInventory.find(query, options)
static_find(k, query, options) ==
    /\ calls[k].pc = "idle"
    /\ \E now \in Times :
        calls' = [calls EXCEPT ![k] =
            static("find", <<query, options>>,
                   find_requestArray(query, options), now)]
    /\ UNCHANGED <<clients, instance, lastSync, probe, result>>

\* client.findOne(query, options)
findOne(k, c, query, options) ==
    /\ calls[k].pc = "idle"
    /\ c \in Constructed
    /\ \E now \in Times :
        calls' = [calls EXCEPT ![k] =
            request(c, "instance", "findOne", <<query, options>>,
                    findOne_requestArray(query, options), now)]
    /\ UNCHANGED <<clients, instance, lastSync, probe, result>>

\* RaukInventory.findOne(query, options)
static_findOne(k, query, options) ==
    /\ calls[k].pc = "idle"
    /\ \E now \in Times :
        calls' = [calls EXCEPT ![k] =
            static("findOne", <<query, options>>,
                   findOne_requestArray(query, options), now)]
    /\ UNCHANGED <<clients, instance, lastSync, probe, result>>

\* client.update(query, updateItem, options)
update(k, c, query, updateItem, options) ==
    /\ calls[k].pc = "idle"
    /\ c \in Constructed
    /\ \E now \in Times :
        calls' = [calls EXCEPT ![k] =
            request(c, "instance", "update", <<query, updateItem, options>>,
                    update_requestArray(query, updateItem, options), now)]
    /\ UNCHANGED <<clients, instance, lastSync, probe, result>>

\* RaukInventory.update, as a mutation would have it: the options are not
\* handed on
static_update_dropsOptions(k, query, updateItem, options) ==
    /\ calls[k].pc = "idle"
    /\ \E now \in Times :
        calls' = [calls EXCEPT ![k] =
            static("update", <<query, updateItem, options>>,
                   update_requestArray(query, updateItem, Undefined), now)]
    /\ UNCHANGED <<clients, instance, lastSync, probe, result>>

\* RaukInventory.update(query, updateItem, options)
static_update(k, query, updateItem, options) ==
    /\ calls[k].pc = "idle"
    /\ \E now \in Times :
        calls' = [calls EXCEPT ![k] =
            static("update", <<query, updateItem, options>>,
                   update_requestArray(query, updateItem, options), now)]
    /\ UNCHANGED <<clients, instance, lastSync, probe, result>>

\* client.delete(query, options)
delete(k, c, query, options) ==
    /\ calls[k].pc = "idle"
    /\ c \in Constructed
    /\ \E now \in Times :
        calls' = [calls EXCEPT ![k] =
            request(c, "instance", "delete", <<query, options>>,
                    delete_requestArray(query, options), now)]
    /\ UNCHANGED <<clients, instance, lastSync, probe, result>>

\* RaukInventory.delete(query, options)
static_delete(k, query, options) ==
    /\ calls[k].pc = "idle"
    /\ \E now \in Times :
        calls' = [calls EXCEPT ![k] =
            static("delete", <<query, options>>,
                   delete_requestArray(query, options), now)]
    /\ UNCHANGED <<clients, instance, lastSync, probe, result>>

\* client.aggregate(pipeline, options)
aggregate(k, c, pipeline, options) ==
    /\ calls[k].pc = "idle"
    /\ c \in Constructed
    /\ \E now \in Times :
        calls' = [calls EXCEPT ![k] =
            request(c, "instance", "aggregate", <<pipeline, options>>,
                    aggregate_requestArray(pipeline, options), now)]
    /\ UNCHANGED <<clients, instance, lastSync, probe, result>>

\* RaukInventory.aggregate(pipeline, options)
static_aggregate(k, pipeline, options) ==
    /\ calls[k].pc = "idle"
    /\ \E now \in Times :
        calls' = [calls EXCEPT ![k] =
            static("aggregate", <<pipeline, options>>,
                   aggregate_requestArray(pipeline, options), now)]
    /\ UNCHANGED <<clients, instance, lastSync, probe, result>>

\* client.bulkWrite(operations, options)
bulkWrite(k, c, operations, options) ==
    /\ calls[k].pc = "idle"
    /\ c \in Constructed
    /\ \E now \in Times :
        calls' = [calls EXCEPT ![k] =
            request(c, "instance", "bulkWrite", <<operations, options>>,
                    bulkWrite_requestArray(operations, options), now)]
    /\ UNCHANGED <<clients, instance, lastSync, probe, result>>

\* RaukInventory.bulkWrite(operations, options)
static_bulkWrite(k, operations, options) ==
    /\ calls[k].pc = "idle"
    /\ \E now \in Times :
        calls' = [calls EXCEPT ![k] =
            static("bulkWrite", <<operations, options>>,
                   bulkWrite_requestArray(operations, options), now)]
    /\ UNCHANGED <<clients, instance, lastSync, probe, result>>

\* client.updateMany(query, updateItem, options)
updateMany(k, c, query, updateItem, options) ==
    /\ calls[k].pc = "idle"
    /\ c \in Constructed
    /\ \E now \in Times :
        calls' = [calls EXCEPT ![k] =
            request(c, "instance", "updateMany", <<query, updateItem, options>>,
                    updateMany_requestArray(query, updateItem, options), now)]
    /\ UNCHANGED <<clients, instance, lastSync, probe, result>>

\* RaukInventory.updateMany(query, updateItem, options)
static_updateMany(k, query, updateItem, options) ==
    /\ calls[k].pc = "idle"
    /\ \E now \in Times :
        calls' = [calls EXCEPT ![k] =
            static("updateMany", <<query, updateItem, options>>,
                   updateMany_requestArray(query, updateItem, options), now)]
    /\ UNCHANGED <<clients, instance, lastSync, probe, result>>

\* client.deleteOne(query, options)
deleteOne(k, c, query, options) ==
    /\ calls[k].pc = "idle"
    /\ c \in Constructed
    /\ \E now \in Times :
        calls' = [calls EXCEPT ![k] =
            request(c, "instance", "deleteOne", <<query, options>>,
                    deleteOne_requestArray(query, options), now)]
    /\ UNCHANGED <<clients, instance, lastSync, probe, result>>

\* RaukInventory.deleteOne(query, options)
static_deleteOne(k, query, options) ==
    /\ calls[k].pc = "idle"
    /\ \E now \in Times :
        calls' = [calls EXCEPT ![k] =
            static("deleteOne", <<query, options>>,
                   deleteOne_requestArray(query, options), now)]
    /\ UNCHANGED <<clients, instance, lastSync, probe, result>>

\* client.deleteMany(query, options)
deleteMany(k, c, query, options) ==
    /\ calls[k].pc = "idle"
    /\ c \in Constructed
    /\ \E now \in Times :
        calls' = [calls EXCEPT ![k] =
            request(c, "instance", "deleteMany", <<query, options>>,
                    deleteMany_requestArray(query, options), now)]
    /\ UNCHANGED <<clients, instance, lastSync, probe, result>>

\* RaukInventory.deleteMany(query, options)
static_deleteMany(k, query, options) ==
    /\ calls[k].pc = "idle"
    /\ \E now \in Times :
        calls' = [calls EXCEPT ![k] =
            static("deleteMany", <<query, options>>,
                   deleteMany_requestArray(query, options), now)]
    /\ UNCHANGED <<clients, instance, lastSync, probe, result>>

\* client.updateBatch(updates, options)
updateBatch(k, c, updates, options) ==
    /\ calls[k].pc = "idle"
    /\ c \in Constructed
    /\ \E now \in Times :
        calls' = [calls EXCEPT ![k] =
            request(c, "instance", "updateBatch", <<updates, options>>,
                    updateBatch_requestArray(updates, options), now)]
    /\ UNCHANGED <<clients, instance, lastSync, probe, result>>

\* RaukInventory.updateBatch(updates, options)
static_updateBatch(k, updates, options) ==
    /\ calls[k].pc = "idle"
    /\ \E now \in Times :
        calls' = [calls EXCEPT ![k] =
            static("updateBatch", <<updates, options>>,
                   updateBatch_requestArray(updates, options), now)]
    /\ UNCHANGED <<clients, instance, lastSync, probe, result>>

\* request, as a mutation would have it: when the request fails for the
\* first time, fetch is called again with the same arguments.
fetchSettles_retries(k, settled) ==
    /\ calls[k].pc = "fetch"
    /\ LET requested == requestSettled(settled)
           outcome == IF calls[k].op = "findOne" /\ requested.t = "return"
                      THEN findOneResult(requested.value)
                      ELSE requested
       IN  calls' = [calls EXCEPT ![k] =
                IF requested.t = "throw" /\ calls[k].fetches = 1
                THEN [calls[k] EXCEPT !.fetches = 2]
                ELSE [pc |-> "done", op |-> calls[k].op, via |-> calls[k].via,
                      client |-> calls[k].client, args |-> calls[k].args,
                      fetches |-> calls[k].fetches,
                      serialized |-> calls[k].serialized,
                      request |-> calls[k].request, settled |-> settled,
                      outcome |-> outcome]]
    /\ UNCHANGED <<clients, instance, lastSync, probe, result>>

\* request, as a mutation would have it: the response is kept in a field of
\* the client, where the call that settles finds the response of a call of
\* the client that settled before it.
fetchSettles_sharedResponse(k, settled) ==
    /\ calls[k].pc = "fetch"
    /\ LET before == {j \in DOMAIN calls : /\ calls[j].pc = "done"
                                           /\ calls[j].client = calls[k].client
                                           /\ calls[j].settled # NoRequest}
           shared == IF before = {} THEN settled
                     ELSE calls[CHOOSE j \in before : TRUE].settled
           requested == requestSettled(shared)
           outcome == IF calls[k].op = "findOne" /\ requested.t = "return"
                      THEN findOneResult(requested.value)
                      ELSE requested
       IN  calls' = [calls EXCEPT ![k] =
                [pc |-> "done", op |-> calls[k].op, via |-> calls[k].via,
                 client |-> calls[k].client, args |-> calls[k].args,
                 fetches |-> calls[k].fetches,
                 serialized |-> calls[k].serialized,
                 request |-> calls[k].request, settled |-> settled,
                 outcome |-> outcome]]
    /\ UNCHANGED <<clients, instance, lastSync, probe, result>>

\* The fetch promise of call k settles, and with it the promise the method
\* returned: request runs to its end, and findOne then takes the first result.
fetchSettles(k, settled) ==
    /\ calls[k].pc = "fetch"
    /\ LET requested == requestSettled(settled)
           outcome == IF calls[k].op = "findOne" /\ requested.t = "return"
                      THEN findOneResult(requested.value)
                      ELSE requested
       IN  calls' = [calls EXCEPT ![k] =
                [pc |-> "done", op |-> calls[k].op, via |-> calls[k].via,
                 client |-> calls[k].client, args |-> calls[k].args,
                 fetches |-> calls[k].fetches,
                      serialized |-> calls[k].serialized,
                 request |-> calls[k].request, settled |-> settled,
                 outcome |-> outcome]]
    /\ UNCHANGED <<clients, instance, lastSync, probe, result>>

\* The caller has taken the outcome of call k.
taken(k) ==
    /\ calls[k].pc = "done"
    /\ calls' = [calls EXCEPT ![k] = Idle]
    /\ UNCHANGED <<clients, instance, lastSync, probe, result>>

-----------------------------------------------------------------------------
(* The inputs the specifications draw from. *)

QuerySku == [t |-> "object", sku |-> Str("ITEM-001")]
QueryColor == [t |-> "object", color |-> Str("Red")]
ItemA == [t |-> "object", sku |-> Str("ITEM-001"), packageQuantity |-> Num(10)]
ItemB == [t |-> "object", sku |-> Str("ITEM-002"), packageQuantity |-> Num(5)]
UpdateA == [t |-> "object", packageQuantity |-> Num(20)]
UpdateB == [t |-> "object", color |-> Str("Blue")]
PipelineA == Arr(<<[t |-> "object", match |-> QueryColor]>>)
OperationsA ==
    Arr(<<[t |-> "object",
           updateOne |-> [t |-> "object", filter |-> QuerySku,
                          update |-> UpdateA]]>>)

EmptyObject == [t |-> "object"]
LimitFive == [t |-> "object", limit |-> Num(5), select |-> Str("sku")]

\* The options argument: left out, null, an empty object, an object.
OptionsSet == {Undefined, Null, EmptyObject, LimitFive}

Queries == {QuerySku, Cyclic}
Items == {ItemA}
Updates == {UpdateA}
Pipelines == {PipelineA}
OperationsSet == {OperationsA}
UpdatesSet ==
    {Arr(<<>>),
     Arr(<<Arr(<<QuerySku, UpdateA>>)>>),
     Arr(<<Arr(<<QuerySku, UpdateA>>), Arr(<<QueryColor, UpdateB>>)>>)}

\* { success: false, error: { name, message?, errors? } }
ErrorBody(error) == [t |-> "object", success |-> Bool(FALSE), error |-> error]

Detail(property, constraints, children) ==
    [t |-> "object", property |-> Str(property), constraints |-> Arr(constraints),
     children |-> Arr(children)]

BrandDetail ==
    Detail("brandDetails",
           <<Str("brandDetails should not be null or undefined")>>, <<>>)
FactoryDetail ==
    Detail("factoryDetails",
           <<Str("factoryDetails should not be null or undefined")>>, <<>>)
NestedDetail ==
    Detail("color", <<Str("color must be an object")>>,
           <<Detail("name", <<Str("name should not be empty")>>, <<>>)>>)

ValidationBody ==
    ErrorBody([t |-> "object", name |-> Str("ValidationException"),
               errors |-> Arr(<<BrandDetail, FactoryDetail>>)])
AuthBody ==
    ErrorBody([t |-> "object", name |-> Str("AuthenticationError"),
               message |-> Str("Invalid API credentials")])
NotFoundBody ==
    ErrorBody([t |-> "object", name |-> Str("NotFoundError"),
               message |-> Str("Item not found")])
NullDetailBody ==
    ErrorBody([t |-> "object", name |-> Str("ValidationException"),
               errors |-> Arr(<<Null>>)])
ServerBody ==
    ErrorBody([t |-> "object", name |-> Str("ServerError"),
               message |-> Str("Internal server error")])

\* The bodies of an error response, as response.json() resolves them.
ErrorBodies ==
    {ValidationBody, AuthBody, ServerBody,
     Null,
     EmptyObject,
     ErrorBody(Str("boom")),
     ErrorBody([t |-> "object", name |-> Str("Error")]),
     ErrorBody([t |-> "object", name |-> Str("Error"),
                errors |-> Str("not a list")]),
     ErrorBody([t |-> "object", name |-> Str("ValidationException"),
                errors |-> Arr(<<>>)]),
     ErrorBody([t |-> "object", name |-> Str("ValidationException"),
                message |-> Str("Validation failed"),
                errors |-> Arr(<<BrandDetail>>)]),
     ErrorBody([t |-> "object", name |-> Str("ValidationException"),
                errors |-> Arr(<<NestedDetail, FactoryDetail>>)]),
     ErrorBody([t |-> "object", name |-> Str("ValidationException"),
                errors |-> Arr(<<Null>>)])}

Statuses == {400, 401, 403, 404, 422, 500, 503}

StatusText(status) ==
    CASE status = 200 -> "OK"
      [] status = 201 -> "Created"
      [] status = 400 -> "Bad Request"
      [] status = 401 -> "Unauthorized"
      [] status = 403 -> "Forbidden"
      [] status = 404 -> "Not Found"
      [] status = 422 -> "Unprocessable Entity"
      [] status = 500 -> "Internal Server Error"
      [] status = 503 -> "Service Unavailable"
      [] OTHER -> ""

\* { data: value }
Envelope(data) == [t |-> "object", data |-> data]

\* What a fetch promise settles with in the facade specification.
Settles ==
    {Response(200, "OK", Envelope(Arr(<<ItemA, ItemB>>))),
     Response(200, "OK", Envelope(Arr(<<>>))),
     Response(201, "Created", Envelope(ItemA)),
     Response(200, "OK", Envelope(Null)),
     Response(200, "OK", EmptyObject),
     Response(200, "OK", Null),
     Response(200, "OK", ParseFail),
     Response(400, "Bad Request", ValidationBody),
     Response(401, "Unauthorized", AuthBody),
     Response(404, "Not Found", NotFoundBody),
     Response(400, "Bad Request", NullDetailBody),
     Response(500, "Internal Server Error", ParseFail),
     Rejection(NativeError("TypeError", "fetch failed")),
     Rejection(NativeError("TypeError", "Load failed")),
     Rejection(NativeError("Error", "socket hang up"))}

FacadeConfigs == {ConfigA}

NoProbe == [t |-> "none"]

-----------------------------------------------------------------------------
(* The facade: clients are constructed, their methods and the static       *)
(* methods are called, fetch promises settle.                               *)

\* Calls are made one after the other here.
CallIds == {1}

Init ==
    /\ clients = [c \in ClientIds |-> NoClient]
    /\ instance = NoInstance
    /\ lastSync = NoError
    /\ calls = [k \in CallIds |-> Idle]
    /\ probe = NoProbe
    /\ result = NoProbe

Next ==
    \/ \E config \in FacadeConfigs : NewRaukInventoryClient(config)
    \/ \E config \in FacadeConfigs : NewRaukInventory(config)
    \/ \E k \in CallIds, c \in ClientIds, item \in Items, options \in OptionsSet :
            create(k, c, item, options)
    \/ \E k \in CallIds, item \in Items, options \in OptionsSet :
            static_create(k, item, options)
    \/ \E k \in CallIds, c \in ClientIds, query \in Queries, options \in OptionsSet :
            find(k, c, query, options)
    \/ \E k \in CallIds, query \in Queries, options \in OptionsSet :
            static_find(k, query, options)
    \/ \E k \in CallIds, c \in ClientIds, query \in Queries, options \in OptionsSet :
            findOne(k, c, query, options)
    \/ \E k \in CallIds, query \in Queries, options \in OptionsSet :
            static_findOne(k, query, options)
    \/ \E k \in CallIds, c \in ClientIds, query \in Queries, updateItem \in Updates,
          options \in OptionsSet :
            update(k, c, query, updateItem, options)
    \/ \E k \in CallIds, query \in Queries, updateItem \in Updates,
          options \in OptionsSet :
            static_update(k, query, updateItem, options)
    \/ \E k \in CallIds, c \in ClientIds, query \in Queries, options \in OptionsSet :
            delete(k, c, query, options)
    \/ \E k \in CallIds, query \in Queries, options \in OptionsSet :
            static_delete(k, query, options)
    \/ \E k \in CallIds, c \in ClientIds, pipeline \in Pipelines,
          options \in OptionsSet :
            aggregate(k, c, pipeline, options)
    \/ \E k \in CallIds, pipeline \in Pipelines, options \in OptionsSet :
            static_aggregate(k, pipeline, options)
    \/ \E k \in CallIds, c \in ClientIds, operations \in OperationsSet,
          options \in OptionsSet :
            bulkWrite(k, c, operations, options)
    \/ \E k \in CallIds, operations \in OperationsSet, options \in OptionsSet :
            static_bulkWrite(k, operations, options)
    \/ \E k \in CallIds, c \in ClientIds, query \in Queries, updateItem \in Updates,
          options \in OptionsSet :
            updateMany(k, c, query, updateItem, options)
    \/ \E k \in CallIds, query \in Queries, updateItem \in Updates,
          options \in OptionsSet :
            static_updateMany(k, query, updateItem, options)
    \/ \E k \in CallIds, c \in ClientIds, query \in Queries, options \in OptionsSet :
            deleteOne(k, c, query, options)
    \/ \E k \in CallIds, query \in Queries, options \in OptionsSet :
            static_deleteOne(k, query, options)
    \/ \E k \in CallIds, c \in ClientIds, query \in Queries, options \in OptionsSet :
            deleteMany(k, c, query, options)
    \/ \E k \in CallIds, query \in Queries, options \in OptionsSet :
            static_deleteMany(k, query, options)
    \/ \E k \in CallIds, c \in ClientIds, updates \in UpdatesSet,
          options \in OptionsSet :
            updateBatch(k, c, updates, options)
    \/ \E k \in CallIds, updates \in UpdatesSet, options \in OptionsSet :
            static_updateBatch(k, updates, options)
    \/ \E config \in FacadeConfigs : static_setConfig(config)
    \/ \E k \in CallIds, settled \in Settles : fetchSettles(k, settled)
    \/ \E k \in CallIds : taken(k)

Spec == Init /\ [][Next]_vars

-----------------------------------------------------------------------------
(* Configuration: clients are constructed and reconfigured with valid and  *)
(* invalid configurations, and find is called in between.                  *)

OkSettles == {Response(200, "OK", Envelope(Arr(<<ItemA>>)))}

NextConfig ==
    \/ \E config \in AllConfigs : NewRaukInventoryClient(config)
    \/ \E config \in AllConfigs : NewRaukInventory(config)
    \/ \E c \in ClientIds, config \in SetConfigs : setConfig(c, config)
    \/ \E config \in SetConfigs : static_setConfig(config)
    \/ \E k \in CallIds, c \in ClientIds : find(k, c, QuerySku, Undefined)
    \/ \E k \in CallIds : static_find(k, QuerySku, Undefined)
    \/ \E k \in CallIds, settled \in OkSettles : fetchSettles(k, settled)
    \/ \E k \in CallIds : taken(k)

SpecConfig == Init /\ [][NextConfig]_vars

-----------------------------------------------------------------------------
(* The error classifier as a function: an error response is drawn, and     *)
(* classified once.                                                        *)

InitClassify ==
    /\ clients = [c \in ClientIds |-> NoClient]
    /\ instance = NoInstance
    /\ lastSync = NoError
    /\ calls = [k \in CallIds |-> Idle]
    /\ probe \in {Response(status, StatusText(status), json) :
                    status \in Statuses, json \in ErrorBodies \cup {ParseFail}}
    /\ result = NoProbe

\* parseApiError is applied to the response and its body, and request raises
\* what comes of it.
classify ==
    /\ result = NoProbe
    /\ result' = [errorBody |-> errorBodyOf(probe),
                  classified |-> parseApiError(probe, errorBodyOf(probe)),
                  raised |-> requestSettled(probe)]
    /\ UNCHANGED <<clients, instance, lastSync, calls, probe>>

NextClassify == classify

SpecClassify == InitClassify /\ [][NextClassify]_vars

-----------------------------------------------------------------------------
(* The signer as a function: a credential, two payloads and a reading of   *)
(* the clock are drawn; the first payload is signed twice and the second   *)
(* once, all at that reading.                                              *)

QueryBrandDetails == [t |-> "object", brandDetails |-> Str("Acme")]
QueryBranddetails == [t |-> "object", branddetails |-> Str("Acme")]
\* { sku: "ITEM-001", color: undefined }: serialized as { sku: "ITEM-001" }
QuerySkuUndefined ==
    [t |-> "object", sku |-> Str("ITEM-001"), color |-> Undefined]

\* The request arrays that are signed.
SignPayloads ==
    {Arr(find_requestArray(QueryBrandDetails, Undefined)),
     Arr(find_requestArray(QueryBranddetails, Undefined)),
     Arr(find_requestArray(QuerySku, Undefined)),
     Arr(find_requestArray(QuerySkuUndefined, Undefined)),
     Arr(find_requestArray(QuerySku, LimitFive)),
     Arr(deleteOne_requestArray(QuerySku, Undefined))}

InitSign ==
    /\ clients = [c \in ClientIds |-> NoClient]
    /\ instance = NoInstance
    /\ lastSync = NoError
    /\ calls = [k \in CallIds |-> Idle]
    /\ probe \in [t : {"sign"}, credential : ValidConfigs,
                   body : SignPayloads, other : SignPayloads, now : Times]
    /\ result = NoProbe

sign ==
    /\ result = NoProbe
    /\ LET credential == probe.credential
           signed(body) == signRequest(credential.apiKeyId, credential.apiSecret,
                                       credential.apiPublicKey, body, probe.now)
       IN  result' = [t |-> "signed", first |-> signed(probe.body),
                      again |-> signed(probe.body),
                      second |-> signed(probe.other)]
    /\ UNCHANGED <<clients, instance, lastSync, calls, probe>>

NextSign == sign

SpecSign == InitSign /\ [][NextSign]_vars

-----------------------------------------------------------------------------
(* getAllMessages as a function: a Validation error is drawn with a tree   *)
(* of violations, and its messages are flattened once.                     *)

\* The sequences of up to n elements of S.
SeqUpTo(S, n) == UNION {[1..m -> S] : m \in 0..n}

IdDetail ==
    Detail("id", <<Str("id must be a string"), Str("id should not be empty")>>,
           <<>>)

\* The children of a violation: violations without children, and one with.
ChildDetails == {IdDetail, NestedDetail}

\* The violations of the list: with no, one or two constraints of their
\* own, and with up to MaxErrors children.
TopDetails ==
    {Detail("brandDetails", constraints, children) :
        constraints \in {<<>>,
                         <<Str("brandDetails should not be null or undefined")>>},
        children \in SeqUpTo(ChildDetails, MaxErrors)}

InitMessages ==
    /\ clients = [c \in ClientIds |-> NoClient]
    /\ instance = NoInstance
    /\ lastSync = NoError
    /\ calls = [k \in CallIds |-> Idle]
    /\ probe \in {RaukValidationError("Validation failed", Arr(errors), 400,
                                       Undefined) :
                    errors \in SeqUpTo(TopDetails, MaxErrors)}
    /\ result = NoProbe

\* error.getAllMessages()
getAllMessages ==
    /\ result = NoProbe
    /\ result' = [t |-> "messages",
                  value |-> extractMessages(probe.validationErrors.a, <<>>)]
    /\ UNCHANGED <<clients, instance, lastSync, calls, probe>>

NextMessages == getAllMessages

SpecMessages == InitMessages /\ [][NextMessages]_vars

-----------------------------------------------------------------------------
(* getErrorsForProperty as a function: a Validation error is drawn with a  *)
(* tree of violations, and it is asked once for one property.              *)

\* The properties asked for: those of the violations drawn, and one that no
\* violation has.
PropertyPaths == {"brandDetails", "id", "color", "name", "sku"}

\* error.getErrorsForProperty(propertyPath)
getErrorsForProperty(propertyPath) ==
    /\ result = NoProbe
    /\ result' = [t |-> "errors", propertyPath |-> propertyPath,
                  value |-> findErrors(probe.validationErrors.a, propertyPath)]
    /\ UNCHANGED <<clients, instance, lastSync, calls, probe>>

NextProperty == \E propertyPath \in PropertyPaths : getErrorsForProperty(propertyPath)

SpecProperty == InitMessages /\ [][NextProperty]_vars

-----------------------------------------------------------------------------
(* Concurrency: two calls can be in flight at once, and their fetch         *)
(* promises settle in any order.                                            *)

ConcurrentCalls == {1, 2}

\* What a fetch promise settles with here: two lists, an error response and
\* a fault of the transport.
ConcurrentSettles ==
    {Response(200, "OK", Envelope(Arr(<<ItemA>>))),
     Response(200, "OK", Envelope(Arr(<<ItemB>>))),
     Response(500, "Internal Server Error", ServerBody),
     Rejection(NativeError("TypeError", "fetch failed"))}

InitConcurrent ==
    /\ clients = [c \in ClientIds |-> NoClient]
    /\ instance = NoInstance
    /\ lastSync = NoError
    /\ calls = [k \in ConcurrentCalls |-> Idle]
    /\ probe = NoProbe
    /\ result = NoProbe

NextConcurrent ==
    \/ \E config \in FacadeConfigs : NewRaukInventoryClient(config)
    \/ \E config \in FacadeConfigs : NewRaukInventory(config)
    \/ \E k \in ConcurrentCalls, c \in ClientIds, query \in {QuerySku, QueryColor} :
            find(k, c, query, Undefined)
    \/ \E k \in ConcurrentCalls, query \in {QuerySku, QueryColor} :
            static_findOne(k, query, Undefined)
    \/ \E k \in ConcurrentCalls, settled \in ConcurrentSettles :
            fetchSettles(k, settled)
    \/ \E k \in ConcurrentCalls : taken(k)

SpecConcurrent == InitConcurrent /\ [][NextConcurrent]_vars

-----------------------------------------------------------------------------
(* The properties. *)

DoneCalls == {k \in CallIds : calls[k].pc = "done"}

\* The calls whose request was handed to fetch.
SentCalls == {k \in CallIds : calls[k].pc \in {"fetch", "done"}
                                /\ calls[k].request # NoRequest}

\* The array the body of call k's request is the JSON text of.
BodyArray(k) == calls[k].request.body.text.a

\* The credential invariants of the data model: the three fields non-empty,
\* the key id 24, the public key 32 and the secret 64 characters long.
CredentialValid(c) ==
    /\ c.apiKeyId # "" /\ c.apiSecret # "" /\ c.apiPublicKey # ""
    /\ Len(c.apiKeyId) = KeyIdLength
    /\ Len(c.apiPublicKey) = PublicKeyLength
    /\ Len(c.apiSecret) = SecretLength

\* A step that is a constructor call.
IsNew == lastSync' # lastSync /\ lastSync'.api = "new"

\* C1: a constructor call with an empty credential field, or with a key id
\* not 24, a public key not 32 or a secret not 64 characters long, throws and
\* changes nothing: no client object, no registered instance, no request;
\* and new RaukInventory with a valid configuration succeeds and registers
\* the object whenever no instance is registered, also after such failures.
C1_ConstructionFailsFast ==
    [][IsNew =>
        /\ ~CredentialValid(lastSync'.config) =>
                /\ lastSync'.threw # NoError
                /\ UNCHANGED <<clients, instance, calls>>
        /\ (/\ CredentialValid(lastSync'.config)
            /\ lastSync'.class = "RaukInventory"
            /\ instance = NoInstance) =>
                /\ lastSync'.threw = NoError
                /\ instance' \in ClientIds
                /\ clients'[instance'].class = "RaukInventory"
                /\ clients'[instance'].apiKeyId = lastSync'.config.apiKeyId]_vars

\* C1, witness: new RaukInventory has thrown on an invalid configuration
\* while a request was in flight, and no instance is registered.
C1_Witness ==
    /\ lastSync # NoError
    /\ lastSync.api = "new"
    /\ lastSync.class = "RaukInventory"
    /\ ~CredentialValid(lastSync.config)
    /\ lastSync.threw # NoError
    /\ instance = NoInstance
    /\ \E k \in CallIds : calls[k].pc = "fetch"

\* C2: the credential every client object holds satisfies the credential
\* invariants, after its construction and after every setConfig.
C2_StoredCredentialValid ==
    \A c \in Constructed : CredentialValid(clients[c])

\* body.error.errors is present and is a list.
ErrorsIsList(body) ==
    /\ body.t = "object"
    /\ "error" \in DOMAIN body
    /\ body.error.t = "object"
    /\ "errors" \in DOMAIN body.error
    /\ body.error.errors.t = "array"

\* The kind the decision order gives.
DecisionOrder(status, body) ==
    IF ErrorsIsList(body) THEN "RaukValidationError"
    ELSE IF status \in {401, 403} THEN "RaukAuthenticationError"
    ELSE IF status >= 500 THEN "RaukNetworkError"
    ELSE "RaukApiError"

\* C3: the classifier produces an error for every status and body, of the
\* kind the decision order gives: Validation when body.error.errors is a
\* list, else Authentication for 401 and 403, else Network from 500 on, else
\* the generic API error.
C3_ClassifierTotal ==
    result # NoProbe =>
        /\ result.classified.t = "return"
        /\ result.classified.value.class =
                DecisionOrder(probe.status, result.errorBody)

\* C4 as stated: the error raised for a 401 or 403 response is an
\* Authentication error and for a response from 500 on a Network error,
\* whatever the body.
C4_KindByStatusAlone ==
    (result # NoProbe /\ (probe.status \in {401, 403} \/ probe.status >= 500)) =>
        /\ result.raised.t = "throw"
        /\ result.raised.error.class =
                IF probe.status \in {401, 403} THEN "RaukAuthenticationError"
                ELSE "RaukNetworkError"

\* C4, amended: the same, for the bodies that carry no list at
\* body.error.errors (a body that is not JSON among them).
C4_KindByStatusWithoutErrorsList ==
    (/\ result # NoProbe
     /\ probe.status \in {401, 403} \/ probe.status >= 500
     /\ ~ErrorsIsList(result.errorBody)) =>
        /\ result.raised.t = "throw"
        /\ result.raised.error.class =
                IF probe.status \in {401, 403} THEN "RaukAuthenticationError"
                ELSE "RaukNetworkError"
        /\ result.raised.error.statusCode = probe.status

\* C4, witness: a 500 response whose body is not JSON has raised a Network
\* error.
C4_Witness ==
    /\ result # NoProbe
    /\ probe.status = 500
    /\ probe.json = ParseFail
    /\ result.raised.t = "throw"
    /\ result.raised.error.class = "RaukNetworkError"

NetworkFailureMessage ==
    "Network request failed - check your internet connection and API endpoint"

\* C5: when the fetch promise rejects, whatever it rejects with, the call
\* raises a Network error with the fixed message, statusCode 0, no
\* originalError, and the fault's message in context.originalError.
C5_EveryFaultIsNetworkError ==
    \A k \in DoneCalls :
        calls[k].settled.t = "rejection" =>
            /\ calls[k].outcome.t = "throw"
            /\ calls[k].outcome.error.class = "RaukNetworkError"
            /\ calls[k].outcome.error.message = NetworkFailureMessage
            /\ calls[k].outcome.error.statusCode = 0
            /\ calls[k].outcome.error.originalError = Undefined
            /\ calls[k].outcome.error.context =
                    [t |-> "object",
                     originalError |-> Str(calls[k].settled.error.message)]

\* C6: whatever a call on a constructed client throws is a RaukError or one
\* of its subclasses.
C6_NoRawException ==
    \A k \in DoneCalls :
        (calls[k].client # NoInstance /\ calls[k].outcome.t = "throw") =>
            calls[k].outcome.error.class \in RaukErrorClasses

\* C7: a call of a method other than findOne whose response is a 2xx with
\* an object E as its body returns E.data.
C7_ReturnsData ==
    \A k \in DoneCalls :
        (/\ calls[k].op # "findOne"
         /\ calls[k].settled.t = "response"
         /\ calls[k].settled.status \in 200..299
         /\ calls[k].settled.json.t = "object") =>
            calls[k].outcome =
                Return(IF "data" \in DOMAIN calls[k].settled.json
                       THEN calls[k].settled.json.data
                       ELSE Undefined)

\* C7, witness: find has returned the list of a 200 response.
C7_Witness ==
    \E k \in DoneCalls :
        /\ calls[k].op = "find"
        /\ calls[k].settled = Response(200, "OK", Envelope(Arr(<<ItemA, ItemB>>)))
        /\ calls[k].outcome = Return(Arr(<<ItemA, ItemB>>))

WireTags ==
    {"insertOne", "find", "findOneAndUpdate", "updateMany", "deleteOne",
     "deleteMany", "bulkWrite", "aggregate"}

WireTag(op) ==
    CASE op = "create" -> "insertOne"
      [] op = "find" -> "find"
      [] op = "findOne" -> "find"
      [] op = "update" -> "findOneAndUpdate"
      [] op = "delete" -> "findOneAndUpdate"
      [] op = "updateMany" -> "updateMany"
      [] op = "deleteOne" -> "deleteOne"
      [] op = "deleteMany" -> "deleteMany"
      [] op = "aggregate" -> "aggregate"
      [] op = "bulkWrite" -> "bulkWrite"
      [] op = "updateBatch" -> "bulkWrite"

\* C8: the first element of every body sent is the wire tag of the method,
\* one of the eight, and the caller's arguments follow in the caller's order:
\* the query, then the update where the method takes one.
C8_WireTagAndOrder ==
    \A k \in SentCalls :
        LET op == calls[k].op
            args == calls[k].args
            body == BodyArray(k)
        IN  /\ body[1] = Str(WireTag(op))
            /\ WireTag(op) \in WireTags
            /\ op # "updateBatch" => body[2] = args[1]
            /\ op \in {"update", "updateMany"} => body[3] = args[2]

\* C8, witness: update has sent findOneAndUpdate, the query, the update.
C8_Witness ==
    \E k \in SentCalls :
        /\ calls[k].op = "update"
        /\ calls[k].args = <<QuerySku, UpdateA, Undefined>>
        /\ BodyArray(k) = <<Str("findOneAndUpdate"), QuerySku, UpdateA>>

\* The number of elements a method puts between the tag and the options.
Positional(op) == IF op \in {"update", "updateMany", "delete"} THEN 2 ELSE 1

\* C9: for every method but findOne, the body ends with the options when
\* the caller gave options, and has no element after the arguments, and no
\* null in their place, when the caller gave none.
C9_OptionsOnlyWhenSupplied ==
    \A k \in SentCalls :
        LET op == calls[k].op
            options == calls[k].args[Len(calls[k].args)]
            body == BodyArray(k)
        IN  op # "findOne" =>
                IF options \notin {Undefined, Null}
                THEN Len(body) = Positional(op) + 2 /\ body[Len(body)] = options
                ELSE Len(body) = Positional(op) + 1
                        /\ \A i \in 1..Len(body) : body[i] \notin {Undefined, Null}

\* C9, witness: find(query) has sent ["find", query].
C9_Witness ==
    \E k \in SentCalls :
        /\ calls[k].op = "find"
        /\ calls[k].args = <<QuerySku, Undefined>>
        /\ BodyArray(k) = <<Str("find"), QuerySku>>

\* C10: delete sends findOneAndUpdate with the update
\* { deleted: { status: true } }, and a body tagged deleteOne or deleteMany
\* is sent by the method of that name only.
C10_SoftDelete ==
    \A k \in SentCalls :
        LET op == calls[k].op
            body == BodyArray(k)
        IN  /\ op = "delete" =>
                /\ body[1] = Str("findOneAndUpdate")
                /\ body[2] = calls[k].args[1]
                /\ body[3] = SoftDelete
            /\ body[1] \in {Str("deleteOne"), Str("deleteMany")} =>
                op = body[1].s

\* C10, witness: delete with options has sent the soft delete and has been
\* answered.
C10_Witness ==
    \E k \in DoneCalls :
        /\ calls[k].op = "delete"
        /\ calls[k].request # NoRequest
        /\ BodyArray(k) = <<Str("findOneAndUpdate"), QuerySku, SoftDelete, LimitFive>>

\* C11: findOne sends the tag find, the query, and an options element that
\* is the caller's options with limit 1: limit is 1 whatever limit the caller
\* gave, every other option of the caller is kept and nothing else is added,
\* and the element is { limit: 1 } when the caller gave no options.
C11_FindOneForcesLimit ==
    \A k \in SentCalls :
        calls[k].op = "findOne" =>
            LET query == calls[k].args[1]
                options == calls[k].args[2]
                body == BodyArray(k)
                given == IF options.t = "object" THEN DOMAIN options ELSE {"t"}
            IN  /\ Len(body) = 3
                /\ body[1] = Str("find")
                /\ body[2] = query
                /\ body[3].t = "object"
                /\ DOMAIN body[3] = given \cup {"limit"}
                /\ body[3].limit = Num(1)
                /\ \A o \in given \ {"t", "limit"} : body[3][o] = options[o]

\* C11, witness: findOne, called with limit 5 and a selection, has sent
\* limit 1 and the selection.
C11_Witness ==
    \E k \in SentCalls :
        /\ calls[k].op = "findOne"
        /\ calls[k].args = <<QuerySku, LimitFive>>
        /\ BodyArray(k) = <<Str("find"), QuerySku,
                            [t |-> "object", limit |-> Num(1),
                             select |-> Str("sku")]>>

\* C12: when the response to findOne is a 2xx whose data is a list, findOne
\* returns the first element of a list that is not empty and null for the
\* empty list, and throws for neither.
C12_FindOneFirstOrNull ==
    \A k \in DoneCalls :
        (/\ calls[k].op = "findOne"
         /\ calls[k].settled.t = "response"
         /\ calls[k].settled.status \in 200..299
         /\ calls[k].settled.json.t = "object"
         /\ "data" \in DOMAIN calls[k].settled.json
         /\ calls[k].settled.json.data.t = "array") =>
            LET list == calls[k].settled.json.data.a
            IN  calls[k].outcome =
                    Return(IF Len(list) > 0 THEN list[1] ELSE Null)

\* C12, witness: findOne has returned null for an empty list.
C12_Witness ==
    \E k \in DoneCalls :
        /\ calls[k].op = "findOne"
        /\ calls[k].settled = Response(200, "OK", Envelope(Arr(<<>>)))
        /\ calls[k].outcome = Return(Null)

\* C13: updateBatch sends the tag bulkWrite with a list of operations as long
\* as the list of pairs, the i-th operation being
\* { updateOne: { filter: q_i, update: u_i } } for the i-th pair (q_i, u_i);
\* the list is empty for no pairs.
C13_UpdateBatchIsBulkWrite ==
    \A k \in SentCalls :
        calls[k].op = "updateBatch" =>
            LET pairs == calls[k].args[1].a
                body == BodyArray(k)
            IN  /\ body[1] = Str("bulkWrite")
                /\ body[2].t = "array"
                /\ Len(body[2].a) = Len(pairs)
                /\ \A i \in 1..Len(pairs) :
                        body[2].a[i] =
                            [t |-> "object",
                             updateOne |-> [t |-> "object",
                                            filter |-> pairs[i].a[1],
                                            update |-> pairs[i].a[2]]]

\* C13, witness: updateBatch has sent the operations of two pairs.
C13_Witness ==
    \E k \in SentCalls :
        /\ calls[k].op = "updateBatch"
        /\ Len(calls[k].args[1].a) = 2
        /\ Len(BodyArray(k)[2].a) = 2
        /\ BodyArray(k)[2].a[2].updateOne.filter = QueryColor

\* The Rai-Signature header of call k, as its four parts.
Signature(k) == calls[k].request.headers.RaiSignature.parts

\* C14: the signature of every request sent has four parts: the key id, the
\* public key, the HMAC keyed by the secret over the serialized payload
\* followed by the decimal string of the timestamp, and the base64 of that
\* same string.
C14_TokenParts ==
    \A k \in SentCalls :
        LET self == clients[calls[k].client]
            parts == Signature(k)
        IN  /\ Len(parts) = 4
            /\ parts[1] = Str(self.apiKeyId)
            /\ parts[2] = Str(self.apiPublicKey)
            /\ parts[3].t = "hmac"
            /\ parts[3].key = self.apiSecret
            /\ parts[3].data.text = calls[k].request.body.text
            /\ parts[3].data.time \in {ToString(now) : now \in Times}
            /\ parts[4] = [t |-> "base64", of |-> parts[3].data.time]

\* C14, witness: a request of update is in flight, signed with the
\* credential of the client.
C14_Witness ==
    \E k \in SentCalls :
        /\ calls[k].pc = "fetch"
        /\ calls[k].op = "update"
        /\ Signature(k)[1] = Str(KeyA)
        /\ Signature(k)[3].key = SecretA
        /\ Signature(k)[4].of = "1"

BaseUrlOf(config) ==
    IF config.apiBaseUrl.t = "string" /\ config.apiBaseUrl.s # ""
    THEN config.apiBaseUrl.s
    ELSE "https://inventory.rauk.app"

\* Call k is invoked in this step and a request is made for it.
Invoked(k) == calls[k].pc = "idle" /\ calls'[k].pc = "fetch"

\* The last constructor or setConfig call was a setConfig, instance or
\* static, on client c, and it returned.
Reconfigured(c) ==
    /\ lastSync # NoError
    /\ lastSync.api \in {"setConfig", "static setConfig"}
    /\ lastSync.threw = NoError
    /\ lastSync.client = c

\* C16: a call invoked on a client after setConfig has returned on it is
\* sent to the /query endpoint of the new base URL and is signed with the
\* new key id, public key and secret.
C16_NextCallUsesNewConfig ==
    [][\A k \in CallIds :
        (Invoked(k) /\ Reconfigured(calls'[k].client)) =>
            LET sent == calls'[k].request
                parts == sent.headers.RaiSignature.parts
            IN  /\ sent.url = BaseUrlOf(lastSync.config) \o "/query"
                /\ parts[1] = Str(lastSync.config.apiKeyId)
                /\ parts[2] = Str(lastSync.config.apiPublicKey)
                /\ parts[3].key = lastSync.config.apiSecret]_vars

\* C16, witness: after the static setConfig with the second configuration
\* on a client constructed with another one, a request of find is in flight
\* to the endpoint and with the key of the second configuration.
C16_Witness ==
    /\ Reconfigured(instance)
    /\ lastSync.api = "static setConfig"
    /\ lastSync.config = ConfigB
    /\ \E k \in SentCalls :
        /\ calls[k].pc = "fetch"
        /\ calls[k].client = instance
        /\ calls[k].request.url = "https://inventory.rauk.app/query"
        /\ Signature(k)[1] = Str(KeyB)
        /\ Signature(k)[3].key = SecretB

\* A step that is a call of new RaukInventory while an instance is
\* registered.
IsFurtherNew ==
    IsNew /\ lastSync'.class = "RaukInventory" /\ instance # NoInstance

IsAlreadyInitialized(error) ==
    /\ error # NoError
    /\ includes(error.message, "RaukInventory is already initialized")

\* The registered instance stays the registered instance, no construction
\* changes its fields, and the static calls are made on it.
OneInstance ==
    /\ instance # NoInstance => instance' = instance
    /\ (IsNew /\ instance # NoInstance) =>
            clients'[instance] = clients[instance]
    /\ \A k \in CallIds :
        (Invoked(k) /\ calls'[k].via = "static") => calls'[k].client = instance

\* C17 as stated: once a RaukInventory is registered, every further
\* new RaukInventory throws 'RaukInventory is already initialized', and the
\* registered instance and its fields stay as they are.
C17_FurtherConstructionAlreadyInitialized ==
    [][/\ OneInstance
       /\ IsFurtherNew =>
            /\ IsAlreadyInitialized(lastSync'.threw)
            /\ UNCHANGED <<clients, instance>>]_vars

\* C17, amended: every further new RaukInventory throws, the error of the
\* configuration when the configuration is one the constructor rejects and
\* 'RaukInventory is already initialized' otherwise, and the registered
\* instance and its fields stay as they are.
C17_FurtherConstructionThrows ==
    [][/\ OneInstance
       /\ IsFurtherNew =>
            /\ lastSync'.threw # NoError
            /\ IsAlreadyInitialized(lastSync'.threw)
                    <=> CredentialValid(lastSync'.config)
            /\ UNCHANGED <<clients, instance>>]_vars

\* C17, witness: a second new RaukInventory with a valid configuration has
\* thrown 'already initialized', and a static call is in flight on the
\* first instance, which has the configuration it was constructed with.
C17_Witness ==
    /\ instance # NoInstance
    /\ lastSync.api = "new"
    /\ lastSync.class = "RaukInventory"
    /\ lastSync.config = ConfigB
    /\ IsAlreadyInitialized(lastSync.threw)
    /\ clients[instance].apiKeyId = KeyA
    /\ \E k \in SentCalls :
        /\ calls[k].pc = "fetch"
        /\ calls[k].via = "static"
        /\ Signature(k)[1] = Str(KeyA)

\* The request array the method op of a client builds from the arguments.
InstanceRequestArray(op, args) ==
    CASE op = "create" -> create_requestArray(args[1], args[2])
      [] op = "find" -> find_requestArray(args[1], args[2])
      [] op = "findOne" -> findOne_requestArray(args[1], args[2])
      [] op = "update" -> update_requestArray(args[1], args[2], args[3])
      [] op = "delete" -> delete_requestArray(args[1], args[2])
      [] op = "aggregate" -> aggregate_requestArray(args[1], args[2])
      [] op = "bulkWrite" -> bulkWrite_requestArray(args[1], args[2])
      [] op = "updateMany" -> updateMany_requestArray(args[1], args[2], args[3])
      [] op = "deleteOne" -> deleteOne_requestArray(args[1], args[2])
      [] op = "deleteMany" -> deleteMany_requestArray(args[1], args[2])
      [] op = "updateBatch" -> updateBatch_requestArray(args[1], args[2])

\* What the method op of a client returns or throws when its fetch promise
\* settles with settled.
InstanceOutcome(op, settled) ==
    LET requested == requestSettled(settled)
    IN  IF op = "findOne" /\ requested.t = "return"
        THEN findOneResult(requested.value)
        ELSE requested

IsMustBeInitialized(error) ==
    /\ error # NoError
    /\ includes(error.message, "RaukInventory must be initialized")

\* A static method is called for call k in this step.
StaticInvoked(k) ==
    calls[k].pc = "idle" /\ calls'[k].pc # "idle" /\ calls'[k].via = "static"

\* RaukInventory.setConfig is called in this step.
StaticSetConfig == lastSync' # lastSync /\ lastSync'.api = "static setConfig"

\* C18: while no RaukInventory is registered, a static method throws 'must
\* be initialized', makes no request and leaves the clients and the handle
\* as they are; once one is registered, a static method makes the request
\* the method of that name makes on the registered instance with the same
\* arguments, and returns or throws what that method does; the static
\* setConfig likewise.
C18_StaticForwards ==
    [][/\ \A k \in CallIds :
            /\ (StaticInvoked(k) /\ instance = NoInstance) =>
                    /\ calls'[k].pc = "done"
                    /\ calls'[k].request = NoRequest
                    /\ calls'[k].outcome.t = "throw"
                    /\ IsMustBeInitialized(calls'[k].outcome.error)
                    /\ UNCHANGED <<clients, instance>>
            /\ (StaticInvoked(k) /\ instance # NoInstance) =>
                    \E now \in Times :
                        calls'[k] =
                            [request(instance, "instance", calls'[k].op,
                                     calls'[k].args,
                                     InstanceRequestArray(calls'[k].op,
                                                          calls'[k].args),
                                     now)
                                EXCEPT !.via = "static"]
            /\ (/\ calls[k].pc = "fetch" /\ calls'[k].pc = "done"
                /\ calls[k].via = "static") =>
                    calls'[k].outcome =
                        InstanceOutcome(calls[k].op, calls'[k].settled)
       /\ (StaticSetConfig /\ instance = NoInstance) =>
            /\ IsMustBeInitialized(lastSync'.threw)
            /\ UNCHANGED <<clients, instance, calls>>
       /\ (StaticSetConfig /\ instance # NoInstance) =>
            /\ lastSync'.threw = NoError
            /\ clients' = [clients EXCEPT ![instance] =
                            SetConfigFields(clients[instance], lastSync'.config)]
      ]_vars

\* C18, witness: with no RaukInventory registered, the static setConfig has
\* thrown and then the static update, for which no request was made.
C18_Witness ==
    /\ instance = NoInstance
    /\ lastSync # NoError
    /\ lastSync.api = "static setConfig"
    /\ IsMustBeInitialized(lastSync.threw)
    /\ \E k \in DoneCalls :
        /\ calls[k].via = "static"
        /\ calls[k].op = "update"
        /\ calls[k].request = NoRequest
        /\ IsMustBeInitialized(calls[k].outcome.error)

\* The fetch promise settled with a failure: a rejection, or a response that
\* is not a 2xx.
Failed(settled) ==
    \/ settled.t = "rejection"
    \/ settled.t = "response" /\ settled.status \notin 200..299

\* C19 as stated: for every call made on a constructed client, fetch is
\* called exactly once.
C19_ExactlyOneRequest ==
    \A k \in DoneCalls :
        calls[k].client # NoInstance => calls[k].fetches = 1

\* Fetch is called at most once for a call; it is not called only when the
\* call threw before its request was made; and a call whose request failed
\* has thrown.
OneRequestAtMost ==
    \A k \in CallIds :
        calls[k].pc # "idle" =>
            /\ calls[k].fetches \in {0, 1}
            /\ calls[k].fetches = 1 <=> calls[k].request # NoRequest
            /\ calls[k].fetches = 0 =>
                    calls[k].pc = "done" /\ calls[k].outcome.t = "throw"
            /\ (calls[k].pc = "done" /\ Failed(calls[k].settled)) =>
                    calls[k].outcome.t = "throw"

\* C19, amended: for every call fetch is called at most once, and exactly
\* once unless the call throws before its request is made (the payload
\* cannot be serialized, or no instance is registered); when the fetch
\* promise settles the call is over, with the request made and no other, and
\* with an exception when the request failed.
C19_NoRetry ==
    /\ []OneRequestAtMost
    /\ [][\A k \in CallIds :
            (calls[k].pc = "fetch" /\ calls'[k] # calls[k]) =>
                /\ calls'[k].pc = "done"
                /\ calls'[k].fetches = 1
                /\ calls'[k].request = calls[k].request]_vars

\* C19, witness: updateBatch is over after one request, which a 500
\* response answered, and has thrown.
C19_Witness ==
    \E k \in DoneCalls :
        /\ calls[k].op = "updateBatch"
        /\ calls[k].fetches = 1
        /\ calls[k].settled.t = "response"
        /\ calls[k].settled.status = 500
        /\ calls[k].outcome.t = "throw"

\* The messages of a list of violations in depth-first pre-order: for each
\* violation in the order of the list, its constraints, then the messages of
\* its children.
RECURSIVE PreOrder(_)
PreOrder(errors) ==
    IF errors = <<>> THEN <<>>
    ELSE Head(errors).constraints.a \o PreOrder(Head(errors).children.a)
            \o PreOrder(Tail(errors))

\* The number of constraints in the trees of a list of violations.
RECURSIVE Constraints(_)
Constraints(errors) ==
    IF errors = <<>> THEN 0
    ELSE Len(Head(errors).constraints.a) + Constraints(Head(errors).children.a)
            + Constraints(Tail(errors))

\* C20: getAllMessages returns the constraints of the whole tree of
\* violations in depth-first pre-order, as many as the tree has; for a list
\* of violations without children these are the constraints of the entries
\* in the order of the list.
C20_AllMessagesPreOrder ==
    result # NoProbe =>
        LET errors == probe.validationErrors.a
        IN  /\ result.value = PreOrder(errors)
            /\ Len(result.value) = Constraints(errors)
            /\ (\A i \in 1..Len(errors) : errors[i].children.a = <<>>) =>
                    \A i \in 1..Len(errors) :
                        \A j \in 1..Len(errors[i].constraints.a) :
                            result.value[Constraints(SubSeq(errors, 1, i - 1)) + j]
                                = errors[i].constraints.a[j]

\* C20, witness: the messages of two violations, the first with a child
\* that has a child of its own, have been flattened: the messages of the
\* first's subtree come before the message of the second.
C20_Witness ==
    /\ result # NoProbe
    /\ probe.validationErrors.a =
            <<Detail("brandDetails", <<>>, <<NestedDetail>>),
              Detail("brandDetails",
                     <<Str("brandDetails should not be null or undefined")>>,
                     <<>>)>>
    /\ result.value =
            <<Str("color must be an object"), Str("name should not be empty"),
              Str("brandDetails should not be null or undefined")>>

\* The records of the trees of a list of violations, each as often as the
\* trees hold it.
RECURSIVE Records(_)
Records(errors) ==
    IF errors = <<>> THEN <<>>
    ELSE <<Head(errors)>> \o Records(Head(errors).children.a)
            \o Records(Tail(errors))

\* How often a sequence holds a value.
Occurrences(sequence, v) ==
    Cardinality({i \in 1..Len(sequence) : sequence[i] = v})

\* C21: getErrorsForProperty(p) returns the records of the tree of
\* violations whose property is p, at whatever depth they are, each as often
\* as the tree holds it, and no other; the list is empty when no record has
\* the property.
C21_ErrorsForProperty ==
    result # NoProbe =>
        LET records == Records(probe.validationErrors.a)
            p == Str(result.propertyPath)
        IN  /\ \A i \in 1..Len(result.value) :
                    /\ result.value[i].property = p
                    /\ \E j \in 1..Len(records) : records[j] = result.value[i]
            /\ \A j \in 1..Len(records) :
                    records[j].property = p =>
                        Occurrences(result.value, records[j])
                            = Occurrences(records, records[j])
            /\ (\A j \in 1..Len(records) : records[j].property # p) =>
                    result.value = <<>>

\* C21, witness: asked for "name", which only a child of a child has, a
\* Validation error with two such records has returned both.
C21_Witness ==
    /\ result # NoProbe
    /\ result.propertyPath = "name"
    /\ Len(probe.validationErrors.a) = 2
    /\ Len(result.value) = 2
    /\ \A i \in 1..2 : result.value[i] = NestedDetail.children.a[1]

\* C22: the message of a Validation error is body.error.message when the
\* body has one, and otherwise the constraint messages of the whole tree of
\* the validation list, those getAllMessages returns, joined with "; ".
C22_ValidationMessage ==
    (/\ result # NoProbe
     /\ result.classified.t = "return"
     /\ result.classified.value.class = "RaukValidationError") =>
        LET error == result.errorBody.error
            validationErrors == result.classified.value.validationErrors.a
        IN  result.classified.value.message =
                IF "message" \in DOMAIN error /\ error.message.t = "string"
                        /\ error.message.s # ""
                THEN error.message.s
                ELSE join(PreOrder(validationErrors), "; ")

\* C23: for every request sent the payload was serialized once, and the
\* text that was signed, before the timestamp, is the text sent as the body.
C23_SerializedOnce ==
    \A k \in SentCalls :
        /\ Len(calls[k].serialized) = 1
        /\ Signature(k)[3].data.text = calls[k].request.body.text

\* The request is addressed and signed with the four fields of one
\* configuration.
UsesConfiguration(sent, configuration) ==
    /\ sent.url = configuration.apiBaseUrl \o "/query"
    /\ sent.headers.RaiSignature.parts[1] = Str(configuration.apiKeyId)
    /\ sent.headers.RaiSignature.parts[2] = Str(configuration.apiPublicKey)
    /\ sent.headers.RaiSignature.parts[3].key = configuration.apiSecret

\* C24: the request of a call is addressed and signed with the configuration
\* the client has when the method is called, all four fields of it, and no
\* later step, a setConfig on the client among them, changes the request.
C24_OneConfigurationPerRequest ==
    [][\A k \in CallIds :
        /\ Invoked(k) =>
                UsesConfiguration(calls'[k].request, clients[calls'[k].client])
        /\ (calls[k].pc = "fetch" /\ calls'[k].pc # "idle") =>
                calls'[k].request = calls[k].request]_vars

\* C24, witness: a request made with the first configuration is in flight
\* on a client that setConfig has since given the second one.
C24_Witness ==
    \E k \in SentCalls :
        /\ calls[k].pc = "fetch"
        /\ Reconfigured(calls[k].client)
        /\ clients[calls[k].client].apiKeyId = KeyB
        /\ clients[calls[k].client].apiBaseUrl = "https://inventory.rauk.app"
        /\ Signature(k)[1] = Str(KeyA)
        /\ Signature(k)[3].key = SecretA
        /\ calls[k].request.url = "https://inventory.rauk.local/query"

\* C25: with two calls in flight on a client, the request of a call is the
\* one its method makes from its own arguments and the configuration of the
\* client; what it returns or throws is what its method makes of what its
\* own fetch promise settled with; and a step of one call leaves the other
\* call as it is.
C25_CallsAreIndependent ==
    [][\A k \in ConcurrentCalls :
        /\ Invoked(k) =>
                \E now \in Times :
                    calls'[k] =
                        request(calls'[k].client, calls'[k].via, calls'[k].op,
                                calls'[k].args,
                                InstanceRequestArray(calls'[k].op,
                                                     calls'[k].args),
                                now)
        /\ (calls[k].pc = "fetch" /\ calls'[k].pc = "done") =>
                /\ calls'[k].request = calls[k].request
                /\ calls'[k].outcome =
                        InstanceOutcome(calls[k].op, calls'[k].settled)
        /\ calls'[k] # calls[k] =>
                \A j \in ConcurrentCalls \ {k} : calls'[j] = calls[j]]_vars

\* C25, witness: of two calls of one client that were in flight together,
\* the second has returned the list of its response and the first has then
\* thrown the error of its own.
C25_Witness ==
    /\ calls[1].pc = "done" /\ calls[2].pc = "done"
    /\ calls[1].client = calls[2].client
    /\ calls[1].args # calls[2].args
    /\ calls[1].settled.t = "response" /\ calls[1].settled.status = 500
    /\ calls[1].outcome.t = "throw"
    /\ calls[1].outcome.error.class = "RaukNetworkError"
    /\ calls[2].outcome = Return(Arr(<<ItemB>>))

\* 'HTTP {status}: {statusText}'
HttpStatusLine(response) ==
    "HTTP " \o ToString(response.status) \o ": " \o response.statusText

\* C26: when the body of a non-2xx response is not JSON, the classifier is
\* handed {success: false, error: {name: 'ParseError', message: 'HTTP
\* {status}: {statusText}'}}; request throws an error that is not a
\* validation error, of the kind the status gives by the decision order, with
\* the message 'HTTP {status}: {statusText}'.
C26_UnparsableErrorBody ==
    (result # NoProbe /\ probe.json = ParseFail) =>
        /\ result.errorBody =
                [t |-> "object", success |-> Bool(FALSE),
                 error |-> [t |-> "object", name |-> Str("ParseError"),
                            message |-> Str(HttpStatusLine(probe))]]
        /\ result.classified.t = "return"
        /\ result.raised = Throw(result.classified.value)
        /\ result.raised.error.class # "RaukValidationError"
        /\ result.raised.error.class =
                IF probe.status \in {401, 403} THEN "RaukAuthenticationError"
                ELSE IF probe.status >= 500 THEN "RaukNetworkError"
                ELSE "RaukApiError"
        /\ result.raised.error.message = HttpStatusLine(probe)

\* C26, witness: a 503 whose body is not JSON has been classified as a
\* network error with the message 'HTTP 503: Service Unavailable'.
C26_Witness ==
    /\ result # NoProbe
    /\ probe.json = ParseFail
    /\ probe.status = 503
    /\ result.raised.t = "throw"
    /\ result.raised.error.class = "RaukNetworkError"
    /\ result.raised.error.message = "HTTP 503: Service Unavailable"

\* A call has settled on a 2xx response whose body is not JSON.
UnparsableSuccess(k) ==
    /\ calls[k].pc = "done"
    /\ calls[k].settled.t = "response"
    /\ ok(calls[k].settled)
    /\ calls[k].settled.json = ParseFail

\* C27, as amended: when the body of a 2xx response is not JSON, the caller
\* gets a base RaukError with the message 'Unexpected error occurred during
\* API request', statusCode 0, no originalError and the message of the parse
\* exception in context.originalError; the classifier has no part in it.
C27_ParseFailureIsWrapped ==
    \A k \in CallIds :
        UnparsableSuccess(k) =>
            calls[k].outcome =
                Throw(RaukError("RaukError",
                        "Unexpected error occurred during API request", 0,
                        [t |-> "object",
                         originalError |-> Str(JsonSyntaxError.message)],
                        Undefined))

\* C27, as stated: when the body of a 2xx response is not JSON, the caller
\* gets the parse exception itself.
C27_ParseFailureUnwrapped ==
    \A k \in CallIds :
        UnparsableSuccess(k) => calls[k].outcome = Throw(JsonSyntaxError)

\* C27, witness: a call has settled on a 200 whose body is not JSON and has
\* thrown an error that is a RaukError.
C27_Witness ==
    \E k \in CallIds :
        /\ UnparsableSuccess(k)
        /\ calls[k].outcome.t = "throw"
        /\ isRaukError(calls[k].outcome.error)
        /\ calls[k].outcome.error.statusCode = 0

\* C28: what request throws for a non-2xx response is the error the
\* classifier returned for it, with its kind, message, statusCode and
\* originalError, and not another error made from it.
C28_ClassifiedOnce ==
    result # NoProbe =>
        /\ result.classified.t = "return"
        /\ result.raised = Throw(result.classified.value)

\* The calls that have thrown a RaukError.
ThrewRaukError(k) ==
    /\ calls[k].pc = "done"
    /\ calls[k].outcome.t = "throw"
    /\ isRaukError(calls[k].outcome.error)

\* The call was answered by a response that is not a 2xx.
ErrorResponse(k) ==
    /\ calls[k].settled.t = "response"
    /\ ~ok(calls[k].settled)

ClassifiedKinds ==
    {"RaukValidationError", "RaukAuthenticationError", "RaukNetworkError",
     "RaukApiError"}

\* The error carries the status of the response the call was answered by,
\* and the body that was classified.
CarriesResponse(k) ==
    /\ ErrorResponse(k)
    /\ calls[k].outcome.error.class \in ClassifiedKinds
    /\ calls[k].outcome.error.statusCode = calls[k].settled.status
    /\ calls[k].outcome.error.originalError =
            (IF calls[k].settled.json = ParseFail
             THEN [t |-> "object", success |-> Bool(FALSE),
                   error |-> [t |-> "object", name |-> Str("ParseError"),
                              message |-> Str(HttpStatusLine(calls[k].settled))]]
             ELSE calls[k].settled.json)

\* The error was made by the catch block of request.
MadeByCatch(error) ==
    /\ error.class \in {"RaukError", "RaukNetworkError"}
    /\ error.originalError = Undefined
    /\ error.context.t = "object"
    /\ "originalError" \in DOMAIN error.context

\* body.error.errors is a list with a null in it.
NullInErrors(body) ==
    /\ ErrorsIsList(body)
    /\ \E i \in 1..Len(body.error.errors.a) :
            body.error.errors.a[i].t \in {"null", "undefined"}

\* C29, as amended: an error the classifier returned carries the status of
\* the response and the classified body, and its statusCode is not 0; an
\* error with statusCode 0 was made by the catch block of request, and that
\* happens for a fault of the transport as well as for a response: a 2xx
\* whose body is not JSON or has no data to read, and a non-2xx whose errors
\* list made the classifier throw.
C29_StatusCodeAndBody ==
    \A k \in CallIds :
        ThrewRaukError(k) =>
            /\ calls[k].outcome.error.statusCode # 0 => CarriesResponse(k)
            /\ calls[k].outcome.error.statusCode = 0 =>
                    /\ MadeByCatch(calls[k].outcome.error)
                    /\ \/ calls[k].settled.t = "rejection"
                       \/ /\ calls[k].settled.t = "response"
                          /\ ok(calls[k].settled)
                       \/ /\ ErrorResponse(k)
                          /\ calls[k].settled.json # ParseFail
                          /\ NullInErrors(calls[k].settled.json)
            /\ (ErrorResponse(k) /\ ~CarriesResponse(k)) =>
                    NullInErrors(calls[k].settled.json)

\* C29, as stated: an error thrown for a non-2xx response carries its status
\* and the classified body, and an error with statusCode 0 was not made from
\* a response.
C29_StatusCodeZeroOnlyWithoutResponse ==
    \A k \in CallIds :
        ThrewRaukError(k) =>
            /\ ErrorResponse(k) => CarriesResponse(k)
            /\ calls[k].outcome.error.statusCode = 0 =>
                    calls[k].settled.t # "response"

\* C29, witness: a call answered by a 404 has thrown an API error with
\* statusCode 404 and the body of the response as originalError.
C29_Witness ==
    \E k \in CallIds :
        /\ ThrewRaukError(k)
        /\ calls[k].settled = Response(404, "Not Found", NotFoundBody)
        /\ calls[k].outcome.error.class = "RaukApiError"
        /\ calls[k].outcome.error.statusCode = 404
        /\ calls[k].outcome.error.originalError = NotFoundBody

\* The configuration names no base URL: apiBaseUrl is omitted or empty.
NoBaseUrl(config) ==
    \/ config.apiBaseUrl.t = "undefined"
    \/ config.apiBaseUrl.t = "string" /\ config.apiBaseUrl.s = ""

\* This step is a setConfig call, instance or static, that returns.
SetConfigReturns ==
    /\ lastSync' # NoError
    /\ lastSync'.api \in {"setConfig", "static setConfig"}
    /\ lastSync'.threw = NoError
    /\ calls' = calls
    /\ <<clients, lastSync>>' # <<clients, lastSync>>

\* C30: setConfig assigns all four fields from the new configuration, and
\* nothing of the old one stays: a configuration whose apiBaseUrl is omitted
\* or empty sets the base URL to 'https://inventory.rauk.app', and the next
\* request of the client goes to 'https://inventory.rauk.app/query'.
C30_SetConfigReplacesAll ==
    [][/\ SetConfigReturns =>
            LET after == clients'[lastSync'.client]
                config == lastSync'.config
            IN  /\ after.apiKeyId = config.apiKeyId
                /\ after.apiSecret = config.apiSecret
                /\ after.apiPublicKey = config.apiPublicKey
                /\ after.apiBaseUrl =
                        IF NoBaseUrl(config) THEN "https://inventory.rauk.app"
                        ELSE config.apiBaseUrl.s
       /\ \A k \in CallIds :
            (/\ Invoked(k)
             /\ Reconfigured(calls'[k].client)
             /\ NoBaseUrl(lastSync.config)) =>
                calls'[k].request.url = "https://inventory.rauk.app/query"]_vars

\* C30, witness: after setConfig was called on a client with a configuration
\* whose apiBaseUrl is the empty string, a request of the client is in flight
\* to the default endpoint, signed with the secret of that configuration.
C30_Witness ==
    /\ lastSync # NoError
    /\ lastSync.api = "setConfig"
    /\ lastSync.threw = NoError
    /\ lastSync.config = ConfigC
    /\ \E k \in SentCalls :
        /\ calls[k].pc = "fetch"
        /\ calls[k].client = lastSync.client
        /\ clients[calls[k].client].apiBaseUrl = "https://inventory.rauk.app"
        /\ calls[k].request.url = "https://inventory.rauk.app/query"
        /\ Signature(k)[3].key = SecretA

====
